---- MODULE Spec2Model ----
(***************************************************************************)
(* A model of agent-face's nn.js: the Matrix class, the activation         *)
(* registry, softmax, the cross-entropy loss and the Network class with    *)
(* its forward pass, backpropagation, mini-batch training loop and         *)
(* serialization.                                                          *)
(*                                                                         *)
(* Numbers.  A JavaScript double is modelled as a fixed-point number: the  *)
(* integer n stands for n / FScale.  The finite doubles are the integers   *)
(* -FMax..FMax; a result beyond that range overflows to PInf or NInf, as   *)
(* a double beyond Number.MAX_VALUE does, and NaN is a value of its own.   *)
(* A result between two representable numbers is rounded to the nearest,   *)
(* and one too small to represent underflows to 0.  The value `undefined`  *)
(* read from beyond the end of an array becomes NaN as soon as it is used  *)
(* in arithmetic or stored into a Float64Array, which is all the code does *)
(* with it.                                                                *)
(***************************************************************************)
EXTENDS Integers, Sequences, FiniteSets, TLC

\* ------------------------------------------------------------------------
\* The number model
\* ------------------------------------------------------------------------

\* Units per 1.0: the resolution of the modelled doubles.
FScale == 4

\* The largest finite modelled double, in units.
FMax == 200

PInf == FMax + 1
NInf == -(FMax + 1)
NaN == FMax + 2

One == FScale

Num == (NInf .. PInf) \cup {NaN}

IsFinite(x) == x >= -FMax /\ x <= FMax

\* Overflow of a finite result.
Sat(n) == IF n > FMax THEN PInf ELSE IF n < -FMax THEN NInf ELSE n

Sign(x) == IF x > 0 THEN 1 ELSE IF x < 0 THEN -1 ELSE 0

\* n / d rounded to the nearest integer (ties upwards), d # 0.
RoundDiv(n, d) ==
    IF d > 0 THEN (2 * n + d) \div (2 * d)
    ELSE (2 * (-n) + (-d)) \div (2 * (-d))

\* The integer n as a double.
ToNum(n) == Sat(n * FScale)

\* -x
NumNeg(x) == IF x = NaN THEN NaN ELSE -x

\* a + b
NumAdd(a, b) ==
    IF a = NaN \/ b = NaN THEN NaN
    ELSE IF a = PInf THEN (IF b = NInf THEN NaN ELSE PInf)
    ELSE IF a = NInf THEN (IF b = PInf THEN NaN ELSE NInf)
    ELSE IF b = PInf \/ b = NInf THEN b
    ELSE Sat(a + b)

\* a - b
NumSub(a, b) == NumAdd(a, NumNeg(b))

\* a * b
NumMul(a, b) ==
    IF a = NaN \/ b = NaN THEN NaN
    ELSE IF ~IsFinite(a) \/ ~IsFinite(b)
         THEN (IF a = 0 \/ b = 0 THEN NaN
               ELSE IF Sign(a) * Sign(b) > 0 THEN PInf ELSE NInf)
    ELSE Sat(RoundDiv(a * b, FScale))

\* a / b
NumDiv(a, b) ==
    IF a = NaN \/ b = NaN THEN NaN
    ELSE IF ~IsFinite(a)
         THEN (IF ~IsFinite(b) THEN NaN
               ELSE IF Sign(a) * (IF b < 0 THEN -1 ELSE 1) > 0 THEN PInf ELSE NInf)
    ELSE IF ~IsFinite(b) THEN 0
    ELSE IF b = 0
         THEN (IF a = 0 THEN NaN ELSE IF a > 0 THEN PInf ELSE NInf)
    ELSE Sat(RoundDiv(a * FScale, b))

\* a > b (false when either is NaN)
NumGt(a, b) == a # NaN /\ b # NaN /\ a > b

\* Math.max(a, b)
NumMax(a, b) == IF a = NaN \/ b = NaN THEN NaN ELSE IF a > b THEN a ELSE b

\* Math.min(a, b)
NumMin(a, b) == IF a = NaN \/ b = NaN THEN NaN ELSE IF a < b THEN a ELSE b

\* FScale * e^(x / FScale) rounded, for x = 1 .. 15 and for x = -1 .. -8.
ExpPos == <<5, 7, 8, 11, 14, 18, 23, 30, 38, 49, 63, 80, 103, 132, 170>>
ExpNeg == <<3, 2, 2, 1, 1, 1, 1, 1>>

\* Math.exp(x)
NumExp(x) ==
    IF x = NaN THEN NaN
    ELSE IF x = 0 THEN One
    ELSE IF x > 0 THEN (IF x <= Len(ExpPos) THEN ExpPos[x] ELSE PInf)
    ELSE IF -x <= Len(ExpNeg) THEN ExpNeg[-x] ELSE 0

\* FScale * ln(x / FScale) rounded, for x = 1 .. 8; ln(2x) = ln(x) + ln(2) beyond.
LogTab == <<-6, -3, -1, 0, 1, 2, 2, 3>>

RECURSIVE LogFin(_)
LogFin(x) == IF x <= Len(LogTab) THEN LogTab[x] ELSE LogFin(x \div 2) + 3

\* Math.log(x)
NumLog(x) ==
    IF x = NaN \/ x < 0 THEN NaN
    ELSE IF x = 0 THEN NInf
    ELSE IF x = PInf THEN PInf
    ELSE LogFin(x)

\* FScale * tanh(x / FScale) rounded, for x = 1 .. 5; 1.0 from there on.
TanhTab == <<1, 2, 3, 3, 3>>

\* Math.tanh(x)
NumTanh(x) ==
    IF x = NaN THEN NaN
    ELSE IF x = 0 THEN 0
    ELSE IF x > 0 THEN (IF x <= Len(TanhTab) THEN TanhTab[x] ELSE One)
    ELSE IF -x <= Len(TanhTab) THEN -TanhTab[-x] ELSE -One

\* data[i] for a 0-based i; beyond the end the read gives undefined, which the
\* code only ever uses as a number: NaN.
ReadAt(data, i) == IF i >= 0 /\ i < Len(data) THEN data[i + 1] ELSE NaN

\* data[i] = v on a Float64Array: a write beyond the end is dropped.
WriteAt(data, i, v) ==
    IF i >= 0 /\ i < Len(data) THEN [data EXCEPT ![i + 1] = v] ELSE data

\* new Float64Array(n)
Zeros(n) == [k \in 1 .. n |-> 0]

\* ------------------------------------------------------------------------
\* Matrix: the values the operations compute.  A matrix value is
\* [rows, cols, data], data being the content of its Float64Array.
\* ------------------------------------------------------------------------

\* null, as JSON.parse gives it for a number JSON.stringify could not write.
JNull == FMax + 3

\* What storing the array element v into a Float64Array stores.
StoreNum(v) == IF v = JNull THEN 0 ELSE v

\* The sequence d with every element computed (the model checker would
\* otherwise recompute an element each time it is read).
Elements(d) == d \o <<>>

Mat(r, c, d) == [rows |-> r, cols |-> c, data |-> Elements(d)]

\* The buffer the constructor fills when it is given no Float64Array: zeros,
\* then data[i] for every i < data.length, writes beyond the end dropped.
\* arr is <<>> when no array is given.
CtorData(rows, cols, arr) ==
    [k \in 1 .. rows * cols |-> IF k <= Len(arr) THEN StoreNum(arr[k]) ELSE 0]

\* Matrix.zeros(rows, cols)
MatZeros(rows, cols) == Mat(rows, cols, CtorData(rows, cols, <<>>))

\* Matrix.fromArray(arr)
MatFromArray(arr) == Mat(Len(arr), 1, CtorData(Len(arr), 1, arr))

\* Matrix.fromRows(rows)
MatFromRows(rws) ==
    LET r == Len(rws)
        c == Len(rws[1])
    IN  Mat(r, c, [p \in 1 .. r * c |->
                     ReadAt(rws[((p - 1) \div c) + 1], (p - 1) % c)])

\* this.get(i, j)
MatGet(this, i, j) == ReadAt(this.data, i * this.cols + j)

\* this.set(i, j, v): the data afterwards
MatSetData(this, i, j, v) == WriteAt(this.data, i * this.cols + j, v)

\* The loop `for i < this.data.length: out.data[i] = f[this.data[i], i]` into
\* a fresh rows x cols buffer.
ElementwiseData(this, f) ==
    [k \in 1 .. this.rows * this.cols |->
        IF k <= Len(this.data) THEN f[this.data[k], k - 1] ELSE 0]

\* this.add(other)
MatAdd(this, other) ==
    LET f == [x \in Num, i \in Nat |-> NumAdd(x, ReadAt(other.data, i))]
    IN  Mat(this.rows, this.cols, ElementwiseData(this, f))

\* this.sub(other)
MatSub(this, other) ==
    LET f == [x \in Num, i \in Nat |-> NumSub(x, ReadAt(other.data, i))]
    IN  Mat(this.rows, this.cols, ElementwiseData(this, f))

\* The inner loop of mul: the sum over k' < k of this[i,k'] * other[k',j].
RECURSIVE MulSum(_, _, _, _, _)
MulSum(this, other, i, j, k) ==
    IF k = 0 THEN 0
    ELSE NumAdd(MulSum(this, other, i, j, k - 1),
                NumMul(ReadAt(this.data, i * this.cols + (k - 1)),
                       ReadAt(other.data, (k - 1) * other.cols + j)))

\* A product that takes the row and the column of an entry from its index
\* by this.cols instead of other.cols; used to see that the product property
\* depends on the indexing.
MatMulOwnStride(this, other) ==
    Mat(this.rows, other.cols,
        [p \in 1 .. this.rows * other.cols |->
            MulSum(this, other, (p - 1) \div this.cols, (p - 1) % this.cols,
                   this.cols)])

\* this.mul(other)
MatMul(this, other) ==
    Mat(this.rows, other.cols,
        [p \in 1 .. this.rows * other.cols |->
            MulSum(this, other, (p - 1) \div other.cols, (p - 1) % other.cols,
                   this.cols)])

\* this.hadamard(other)
MatHadamard(this, other) ==
    LET f == [x \in Num, i \in Nat |-> NumMul(x, ReadAt(other.data, i))]
    IN  Mat(this.rows, this.cols, ElementwiseData(this, f))

\* this.scale(s)
MatScale(this, s) ==
    LET f == [x \in Num, i \in Nat |-> NumMul(x, s)]
    IN  Mat(this.rows, this.cols, ElementwiseData(this, f))

\* A transpose that swaps rows and cols and copies the data as it lies; used
\* to see that the transpose property depends on the permutation.
MatTransposeReshape(this) ==
    Mat(this.cols, this.rows,
        [p \in 1 .. this.cols * this.rows |-> ReadAt(this.data, p - 1)])

\* this.transpose()
MatTranspose(this) ==
    Mat(this.cols, this.rows,
        [p \in 1 .. this.cols * this.rows |->
            ReadAt(this.data,
                   ((p - 1) % this.rows) * this.cols + ((p - 1) \div this.rows))])

\* this.map(fn), fn taking the value alone
MatMap(this, fn) ==
    LET f == [x \in Num, i \in Nat |-> fn[x]]
    IN  Mat(this.rows, this.cols, ElementwiseData(this, f))

\* this.addVec(vec)
MatAddVec(this, vec) ==
    Mat(this.rows, this.cols,
        [p \in 1 .. this.rows * this.cols |->
            NumAdd(ReadAt(this.data, p - 1),
                   ReadAt(vec.data, (p - 1) \div this.cols))])

\* this.toArray()
MatToArray(this) == this.data

\* this.toJSON()
MatToJSON(this) == [rows |-> this.rows, cols |-> this.cols, data |-> this.data]

\* Matrix.fromJSON(json), json.data a plain array
MatFromJSON(json) == Mat(json.rows, json.cols, CtorData(json.rows, json.cols, json.data))

\* this.clone()
MatClone(this) == Mat(this.rows, this.cols, this.data)

\* ------------------------------------------------------------------------
\* Xavier initialization, activations, softmax, loss
\* ------------------------------------------------------------------------

\* Math.sqrt(x)
NumSqrt(x) ==
    IF x = NaN \/ x < 0 THEN NaN
    ELSE IF x = PInf THEN PInf
    ELSE CHOOSE r \in 0 .. FMax :
            /\ 4 * x * FScale < (2 * r + 1) * (2 * r + 1)
            /\ r = 0 \/ (2 * r - 1) * (2 * r - 1) <= 4 * x * FScale

\* The values Math.random() returns: 0 <= r < 1.
RandomDraws == 0 .. (FScale - 1)

\* xavierInit(rows, cols); draws[k] is what the k-th Math.random() returned.
XavierInit(rows, cols, draws) ==
    LET limit == NumSqrt(NumDiv(ToNum(6), ToNum(rows + cols)))
    IN  Mat(rows, cols,
            [k \in 1 .. rows * cols |->
                NumMul(NumSub(NumMul(draws[k], ToNum(2)), One), limit)])

\* The bound of the sigmoid's clamp.
SigmoidClamp == 500

\* activations.sigmoid.fn
SigmoidFn(x) ==
    NumDiv(One, NumAdd(One,
        NumExp(NumNeg(NumMin(NumMax(x, NumNeg(ToNum(SigmoidClamp))),
                             ToNum(SigmoidClamp))))))

ActivationNames == {"relu", "sigmoid", "tanh"}

\* activations[name].fn(x)
ActFn(name, x) ==
    CASE name = "relu" -> NumMax(0, x)
      [] name = "sigmoid" -> SigmoidFn(x)
      [] name = "tanh" -> NumTanh(x)

\* activations[name].dfn(x)
ActDfn(name, x) ==
    CASE name = "relu" -> IF NumGt(x, 0) THEN One ELSE 0
      [] name = "sigmoid" -> NumMul(SigmoidFn(x), NumSub(One, SigmoidFn(x)))
      [] name = "tanh" -> NumSub(One, NumMul(NumTanh(x), NumTanh(x)))

\* softmax: the running maximum of vec.data[0 .. n-1], from -Infinity.
RECURSIVE SoftmaxMax(_, _)
SoftmaxMax(vec, n) ==
    IF n = 0 THEN NInf
    ELSE LET m == SoftmaxMax(vec, n - 1)
         IN  IF NumGt(ReadAt(vec.data, n - 1), m) THEN ReadAt(vec.data, n - 1) ELSE m

\* softmax: exp(vec.data[i] - maxVal)
SoftmaxExp(vec, i) == NumExp(NumSub(ReadAt(vec.data, i), SoftmaxMax(vec, vec.rows)))

\* softmax: the sum of the first n exponentials
RECURSIVE SoftmaxSum(_, _)
SoftmaxSum(vec, n) ==
    IF n = 0 THEN 0 ELSE NumAdd(SoftmaxSum(vec, n - 1), SoftmaxExp(vec, n - 1))

\* A softmax that leaves the maximum in and normalises nothing; used to see
\* that the softmax property depends on the normalisation.
SoftmaxUnnormalised(vec) ==
    Mat(vec.rows, 1, [k \in 1 .. vec.rows |-> NumExp(ReadAt(vec.data, k - 1))])

\* softmax(vec)
Softmax(vec) ==
    Mat(vec.rows, 1,
        [k \in 1 .. vec.rows |->
            NumDiv(SoftmaxExp(vec, k - 1), SoftmaxSum(vec, vec.rows))])

\* FScale * ln(1e-15), the logarithm at the floor of crossEntropyLoss.
LogFloor == -138

\* Math.log(Math.max(p, 1e-15)): 1e-15 is below the resolution, so every p
\* that is not above 0 is at the floor.
LogFloored(p) ==
    IF p = NaN THEN NaN ELSE IF p > 0 THEN NumLog(p) ELSE LogFloor

\* crossEntropyLoss: the loss after the first n entries of target
RECURSIVE LossUpTo(_, _, _)
LossUpTo(predicted, target, n) ==
    IF n = 0 THEN 0
    ELSE LET l == LossUpTo(predicted, target, n - 1)
             t == ReadAt(target.data, n - 1)
         IN  IF NumGt(t, 0)
             THEN NumSub(l, NumMul(t, LogFloored(ReadAt(predicted.data, n - 1))))
             ELSE l

\* crossEntropyLoss(predicted, target)
CrossEntropyLoss(predicted, target) == LossUpTo(predicted, target, target.rows)

\* ------------------------------------------------------------------------
\* Network
\* ------------------------------------------------------------------------

\* new Network(layerSizes, hiddenActivation); draws[i] are the random numbers
\* xavierInit gets for layer i.
NetworkNew(layerSizes, hiddenActivation, draws) ==
    [layerSizes |-> layerSizes,
     hiddenActivation |-> hiddenActivation,
     weights |-> Elements([i \in 1 .. Len(layerSizes) - 1 |->
                    XavierInit(layerSizes[i + 1], layerSizes[i], draws[i])]),
     biases |-> Elements([i \in 1 .. Len(layerSizes) - 1 |->
                    MatZeros(layerSizes[i + 1], 1)])]

\* A forward pass that applies the hidden activation to the last layer too;
\* used to see that the trace property depends on the output layer.
RECURSIVE ForwardUpToAllHidden(_, _, _)
ForwardUpToAllHidden(net, input, n) ==
    IF n = 0 THEN [zs |-> <<>>, as |-> <<input>>]
    ELSE LET t == ForwardUpToAllHidden(net, input, n - 1)
             z == MatAdd(MatMul(net.weights[n], t.as[n]), net.biases[n])
             fn == [x \in Num |-> ActFn(net.hiddenActivation, x)]
         IN  [zs |-> Append(t.zs, z), as |-> Append(t.as, MatMap(z, fn))]

\* forward: the trace after the first n layers
RECURSIVE ForwardUpTo(_, _, _)
ForwardUpTo(net, input, n) ==
    IF n = 0 THEN [zs |-> <<>>, as |-> <<input>>]
    ELSE LET t == ForwardUpTo(net, input, n - 1)
             a == t.as[n]
             z == MatAdd(MatMul(net.weights[n], a), net.biases[n])
             fn == [x \in Num |-> ActFn(net.hiddenActivation, x)]
             a2 == IF n < Len(net.weights) THEN MatMap(z, fn) ELSE Softmax(z)
         IN  [zs |-> Append(t.zs, z), as |-> Append(t.as, a2)]

\* net.forward(input)
Forward(net, input) == ForwardUpTo(net, input, Len(net.weights))

\* net.predict(input)
Predict(net, input) ==
    LET t == Forward(net, input) IN t.as[Len(t.as)]

\* A delta passed down without the derivative of the hidden activation; used
\* to see that the gradient property depends on the propagation rule.
RECURSIVE BackDeltaNoDerivative(_, _, _, _)
BackDeltaNoDerivative(net, t, target, i) ==
    IF i = Len(net.weights) THEN MatSub(t.as[i + 1], target)
    ELSE MatMul(MatTranspose(net.weights[i + 1]),
                BackDeltaNoDerivative(net, t, target, i + 1))

\* backward: the delta layer i (1-based, from L down) is entered with
RECURSIVE BackDelta(_, _, _, _)
BackDelta(net, t, target, i) ==
    IF i = Len(net.weights) THEN MatSub(t.as[i + 1], target)
    ELSE LET dfn == [x \in Num |-> ActDfn(net.hiddenActivation, x)]
             dAct == MatMap(t.zs[i], dfn)
         IN  MatHadamard(MatMul(MatTranspose(net.weights[i + 1]),
                                BackDelta(net, t, target, i + 1)), dAct)

\* net.backward(input, target)
Backward(net, input, target) ==
    LET t == Forward(net, input)
        L == Len(net.weights)
    IN  [dw |-> Elements([i \in 1 .. L |->
                    MatMul(BackDelta(net, t, target, i), MatTranspose(t.as[i]))]),
         db |-> Elements([i \in 1 .. L |-> MatClone(BackDelta(net, t, target, i))]),
         loss |-> CrossEntropyLoss(t.as[L + 1], target)]

\* JSON.stringify of a number: NaN and the infinities are written as null.
JsonNum(x) == IF IsFinite(x) THEN x ELSE JNull

\* JSON.parse(JSON.stringify(m.toJSON()))
JsonMat(m) ==
    LET j == MatToJSON(m)
    IN  [rows |-> j.rows, cols |-> j.cols,
         data |-> [k \in 1 .. Len(j.data) |-> JsonNum(j.data[k])]]

SnapshotFields == {"layerSizes", "hiddenActivation", "weights", "biases"}

\* net.save(), as JSON.parse reads it back; has names the fields present
Save(net) ==
    [has |-> SnapshotFields,
     layerSizes |-> net.layerSizes,
     hiddenActivation |-> net.hiddenActivation,
     weights |-> [i \in 1 .. Len(net.weights) |-> JsonMat(net.weights[i])],
     biases |-> [i \in 1 .. Len(net.biases) |-> JsonMat(net.biases[i])]]

NoNet == [layerSizes |-> <<>>, hiddenActivation |-> "", weights |-> <<>>, biases |-> <<>>]

\* Network.load(json): reading a missing layerSizes, weights or biases throws
\* a TypeError; a missing hiddenActivation takes the default 'relu'.
Load(data, draws) ==
    IF "layerSizes" \notin data.has THEN [outcome |-> "TypeError", net |-> NoNet]
    ELSE LET net == NetworkNew(data.layerSizes,
                               IF "hiddenActivation" \in data.has
                               THEN data.hiddenActivation ELSE "relu",
                               draws)
         IN  IF "weights" \notin data.has \/ "biases" \notin data.has
             THEN [outcome |-> "TypeError", net |-> NoNet]
             ELSE [outcome |-> "returned",
                   net |-> [net EXCEPT
                      !.weights = [i \in 1 .. Len(data.weights) |->
                                      MatFromJSON(data.weights[i])],
                      !.biases = [i \in 1 .. Len(data.biases) |->
                                      MatFromJSON(data.biases[i])]]]

\* ------------------------------------------------------------------------
\* Matrix objects on a heap of Float64Arrays: who owns which buffer.
\* ------------------------------------------------------------------------

VARIABLES
    net,      \* the Network under training
    tr,       \* the frame of the train call: its arguments, locals and position
    obs,      \* what the call has done so far: batches, updates, onEpoch calls
    snapshot, \* what net.save() returned, or NoSnapshot
    loaded,   \* what Network.load returned or threw, and what it was given
    heap,   \* the Float64Arrays allocated so far, by identity (index)
    mats,   \* the Matrix objects built so far: [rows, cols, data |-> buffer]
    json,   \* the record the last toJSON returned, or NoJson
    call,   \* the last Matrix call: what it was given and what came of it
    ev,     \* the last call of softmax or forward: its arguments and result
    sa,     \* the SentimentAnalyzer: its fields and its last call
    rm,     \* the RendererManager: its fields, its calls under way, the plugins
    em,     \* the ExpressionMapper: its fields and its last call
    run     \* the `face run` process: its handlers, interval and latest frame

mvars == <<heap, mats, json, call>>

\* The variables of the other components.
zvars == <<em, run>>
xvars == <<ev, sa, rm, zvars>>

\* The largest number of rows or columns of a matrix built from scratch.
MaxDim == 2

Dims == 1 .. MaxDim

\* The contents the explicit data is drawn from.
Seeds == {0, 1}

DataOf(len, seed) == [k \in 1 .. len |-> ((k + seed) % 3) * FScale + seed]

\* The third constructor argument: nothing, a plain array, or a Float64Array
\* (a buffer of the heap).
NoData == [kind |-> "none", arr |-> <<>>, ref |-> 0]
ArrayData(a) == [kind |-> "array", arr |-> a, ref |-> 0]
F64Data(id) == [kind |-> "f64", arr |-> <<>>, ref |-> id]

NoJson == [rows |-> 0, cols |-> 0, data |-> NoData]

NoCall ==
    [op |-> "none", this |-> 0, other |-> 0, out |-> 0, kind |-> "none",
     len |-> 0, outcome |-> "none", pre |-> <<>>, written |-> FALSE]

\* A Matrix object: its data names a buffer of the heap.
MatObj(r, c, id) == [rows |-> r, cols |-> c, data |-> id]

\* new Matrix(rows, cols, data) on heap h: the heap afterwards and the object.
\* A Float64Array is adopted as it is; anything else gets a fresh buffer.
MatrixCtor(h, rows, cols, d) ==
    IF d.kind = "f64"
    THEN [heap |-> h, obj |-> MatObj(rows, cols, d.ref)]
    ELSE [heap |-> Append(h, CtorData(rows, cols, d.arr)),
          obj |-> MatObj(rows, cols, Len(h) + 1)]

\* The matrix value an object stands for.
Deref(h, obj) == Mat(obj.rows, obj.cols, h[obj.data])

\* `const out = new Matrix(r, c)` followed by the loop that fills out.data
\* with the value v computed from the operands.
NewOut(h, v) ==
    LET c == MatrixCtor(h, v.rows, v.cols, NoData)
    IN  [heap |-> [c.heap EXCEPT ![c.obj.data] = v.data], obj |-> c.obj]

\* this.clone(): new Matrix(rows, cols, new Float64Array(this.data))
CloneObj(h, this) ==
    MatrixCtor(Append(h, h[this.data]), this.rows, this.cols, F64Data(Len(h) + 1))

\* Matrix.fromJSON(json)
FromJSONObj(h, j) == MatrixCtor(h, j.rows, j.cols, j.data)

BinaryOps == {"add", "sub", "mul", "hadamard", "addVec"}

BinaryValue(op, a, b) ==
    CASE op = "add" -> MatAdd(a, b)
      [] op = "sub" -> MatSub(a, b)
      [] op = "mul" -> MatMul(a, b)
      [] op = "hadamard" -> MatHadamard(a, b)
      [] op = "addVec" -> MatAddVec(a, b)

\* The scalars scale is called with, and the functions map is called with.
ScaleArgs == {2 * FScale, -FScale}
MapFns == {"neg", "exp"}
ApplyFn(f, x) == IF f = "neg" THEN NumNeg(x) ELSE NumExp(x)

InitMatrixVars ==
    /\ heap = <<>>
    /\ mats = <<>>
    /\ json = NoJson
    /\ call = NoCall

Building == call.op \in {"none", "new"}

\* new Matrix(rows, cols), new Matrix(rows, cols, [..]) or
\* new Matrix(rows, cols, Float64Array): the operands are built first.
MatrixNew(rows, cols, kind, len, seed) ==
    /\ Building
    /\ Len(mats) < 2
    /\ LET h0 == IF kind = "f64" THEN Append(heap, DataOf(len, seed)) ELSE heap
           d == IF kind = "f64" THEN F64Data(Len(heap) + 1)
                ELSE IF kind = "array" THEN ArrayData(DataOf(len, seed))
                ELSE NoData
           c == MatrixCtor(h0, rows, cols, d)
       IN  /\ heap' = c.heap
           /\ mats' = Append(mats, c.obj)
           /\ call' = [NoCall EXCEPT !.op = "new", !.out = Len(mats) + 1,
                                     !.kind = kind, !.len = len,
                                     !.outcome = "returned", !.pre = h0]
    /\ UNCHANGED json

\* mats[1].add(mats[2]) and the like
MatrixBinary(op) ==
    /\ Building
    /\ Len(mats) = 2
    /\ LET r == NewOut(heap, BinaryValue(op, Deref(heap, mats[1]), Deref(heap, mats[2])))
       IN  /\ heap' = r.heap
           /\ mats' = Append(mats, r.obj)
           /\ call' = [NoCall EXCEPT !.op = op, !.this = 1, !.other = 2, !.out = 3,
                                     !.outcome = "returned", !.pre = heap]
    /\ UNCHANGED json

\* mats[1].scale(s)
MatrixScale(s) ==
    /\ Building
    /\ Len(mats) = 1
    /\ LET r == NewOut(heap, MatScale(Deref(heap, mats[1]), s))
       IN  /\ heap' = r.heap
           /\ mats' = Append(mats, r.obj)
           /\ call' = [NoCall EXCEPT !.op = "scale", !.this = 1, !.out = 2,
                                     !.outcome = "returned", !.pre = heap]
    /\ UNCHANGED json

\* mats[1].transpose()
MatrixTranspose ==
    /\ Building
    /\ Len(mats) = 1
    /\ LET r == NewOut(heap, MatTranspose(Deref(heap, mats[1])))
       IN  /\ heap' = r.heap
           /\ mats' = Append(mats, r.obj)
           /\ call' = [NoCall EXCEPT !.op = "transpose", !.this = 1, !.out = 2,
                                     !.outcome = "returned", !.pre = heap]
    /\ UNCHANGED json

\* mats[1].map(fn)
MatrixMap(f) ==
    /\ Building
    /\ Len(mats) = 1
    /\ LET fn == [x \in Num |-> ApplyFn(f, x)]
           r == NewOut(heap, MatMap(Deref(heap, mats[1]), fn))
       IN  /\ heap' = r.heap
           /\ mats' = Append(mats, r.obj)
           /\ call' = [NoCall EXCEPT !.op = "map", !.this = 1, !.out = 2,
                                     !.outcome = "returned", !.pre = heap]
    /\ UNCHANGED json

\* mats[1].clone()
MatrixClone ==
    /\ Building
    /\ Len(mats) = 1
    /\ LET r == CloneObj(heap, mats[1])
       IN  /\ heap' = r.heap
           /\ mats' = Append(mats, r.obj)
           /\ call' = [NoCall EXCEPT !.op = "clone", !.this = 1, !.out = 2,
                                     !.outcome = "returned", !.pre = heap]
    /\ UNCHANGED json

\* mats[1].toJSON(): Array.from(this.data) is a new plain array
MatrixToJSON ==
    /\ Building
    /\ Len(mats) = 1
    /\ json' = [rows |-> mats[1].rows, cols |-> mats[1].cols,
                data |-> ArrayData(MatToJSON(Deref(heap, mats[1])).data)]
    /\ call' = [NoCall EXCEPT !.op = "toJSON", !.this = 1,
                              !.outcome = "returned", !.pre = heap]
    /\ UNCHANGED <<heap, mats>>

\* Matrix.fromJSON(j): j is the record toJSON returned, or a record the caller
\* put together around the Float64Array of mats[1].
MatrixFromJSON(fromCaller) ==
    /\ Len(mats) = 1
    /\ IF fromCaller THEN Building ELSE call.op = "toJSON"
    /\ LET j == IF fromCaller
                THEN [rows |-> mats[1].rows, cols |-> mats[1].cols,
                      data |-> F64Data(mats[1].data)]
                ELSE json
           r == FromJSONObj(heap, j)
       IN  /\ heap' = r.heap
           /\ mats' = Append(mats, r.obj)
           /\ json' = j
           /\ call' = [NoCall EXCEPT !.op = "fromJSON", !.this = 1, !.out = 2,
                                     !.kind = j.data.kind,
                                     !.outcome = "returned", !.pre = heap]

\* result.set(i, j, v) on the matrix the last operation returned
MatrixSet(i, j, v) ==
    /\ call.op \notin {"none", "new", "toJSON"}
    /\ ~call.written
    /\ LET m == mats[call.out]
       IN  heap' = [heap EXCEPT ![m.data] = MatSetData(Deref(heap, m), i, j, v)]
    /\ call' = [call EXCEPT !.written = TRUE]
    /\ UNCHANGED <<mats, json>>

\* ------------------------------------------------------------------------
\* Network.train, step by step, and save / load
\* ------------------------------------------------------------------------

nvars == <<net, tr, obs, snapshot, loaded>>
vars == <<net, tr, obs, snapshot, loaded, heap, mats, json, call, ev, sa, rm, em, run>>

\* The largest epochs a train call is given.
MaxEpochs == 2

\* The largest number of samples a train call is given.
MaxSamples == 3

\* How many rounds of the batch loop are followed when batchSize <= 0 keeps
\* the loop from advancing.
MaxSpin == 2

\* The networks the runs start from: one without and one with a hidden
\* layer for the training loop, every registered activation for save / load.
TrainNets == {<<<<1, 2>>, "relu">>, <<<<2, 1, 2>>, "tanh">>}
SerialNets == {<<<<1, 2>>, "relu">>} \cup {<<<<2, 1, 2>>, a>> : a \in ActivationNames}
XavierSeeds == {0, 1}
XavierDraws(layerSizes, seed) ==
    [i \in 1 .. Len(layerSizes) - 1 |->
        [k \in 1 .. layerSizes[i + 1] * layerSizes[i] |-> (seed + i + 3 * k) % FScale]]

\* The k-th sample (from 0) for a network with n0 inputs and nL outputs: the
\* bits of k, labelled one-hot with their parity.
SampleAt(k, n0, nL) ==
    [input |-> MatFromArray([d \in 1 .. n0 |-> ToNum((k \div (2 ^ (d - 1))) % 2)]),
     target |-> MatFromArray([c \in 1 .. nL |->
                    IF c - 1 = ((k % 2) + (IF n0 > 1 THEN (k \div 2) % 2 ELSE 0)) % 2
                    THEN One ELSE 0])]

SamplesFor(layerSizes, n) ==
    [k \in 1 .. n |-> SampleAt(k - 1, layerSizes[1], layerSizes[Len(layerSizes)])]

\* The learning rates train is given: 0.5, and the largest double.
Half == FScale \div 2

\* The configurations the specification calls valid.
ValidConfig(lr, epochs, batchSize) == lr > 0 /\ epochs >= 1 /\ batchSize >= 1

\* The configurations the training runs are called with: the valid ones at a
\* moderate rate, with and without shuffling (shuffled runs of at most two
\* epochs: every further shuffled epoch multiplies the orders followed); the
\* valid ones at a rate that makes the parameters overflow; and those with a
\* non-positive epochs, batchSize or lr.
TrainConfigs(n, lr, epochs, batchSize, shuffle, onEpoch) ==
    \/ /\ lr = Half /\ ValidConfig(lr, epochs, batchSize) /\ onEpoch
       /\ (shuffle => epochs <= 2)
    \/ lr = FMax /\ ValidConfig(lr, epochs, batchSize) /\ ~shuffle /\ ~onEpoch
    \/ ~ValidConfig(lr, epochs, batchSize) /\ ~shuffle /\ onEpoch /\ n \in {0, MaxSamples}

\* The configurations the networks are trained with before they are saved.
SerialConfigs(n, lr, epochs, batchSize, shuffle, onEpoch) ==
    /\ n = MaxSamples /\ batchSize \in {1, n} /\ epochs >= 1
    /\ lr \in {Half, FMax} /\ ~shuffle /\ ~onEpoch

NoSnapshot == [has |-> {}, layerSizes |-> <<>>, hiddenActivation |-> "",
               weights |-> <<>>, biases |-> <<>>]

NoLoad == [outcome |-> "none", net |-> NoNet, given |-> NoSnapshot]

NoTrain ==
    [pc |-> "idle", samples |-> <<>>, lr |-> 0, epochs |-> 0, batchSize |-> 0,
     shuffle |-> FALSE, onEpoch |-> FALSE, epoch |-> 0, indices |-> <<>>, b |-> 0,
     batch |-> <<>>, pos |-> 0, accDw |-> <<>>, accDb |-> <<>>, totalLoss |-> 0,
     correct |-> 0, history |-> <<>>]

NoObs == [batches |-> <<>>, processed |-> <<>>, updates |-> 0, calls |-> <<>>]

InitNetworkVars(nets) ==
    /\ \E n \in nets : net = NetworkNew(n[1], n[2], XavierDraws(n[1], 0))
    /\ tr = NoTrain
    /\ obs = NoObs
    /\ snapshot = NoSnapshot
    /\ loaded = NoLoad

\* A slice that takes the element at `end` too (an off-by-one in the batch
\* cut); used to see that the batching property depends on the cut.
SliceInclusive(arr, start, end) ==
    LET n == Len(arr)
        from == IF start > n THEN n ELSE start
        to == IF end + 1 > n THEN n ELSE end + 1
    IN  [k \in 1 .. (IF to > from THEN to - from ELSE 0) |-> arr[from + k]]

\* arr.slice(start, end)
Slice(arr, start, end) ==
    LET n == Len(arr)
        from == IF start < 0 THEN (IF n + start < 0 THEN 0 ELSE n + start)
                ELSE IF start > n THEN n ELSE start
        to == IF end < 0 THEN (IF n + end < 0 THEN 0 ELSE n + end)
              ELSE IF end > n THEN n ELSE end
    IN  [k \in 1 .. (IF to > from THEN to - from ELSE 0) |-> arr[from + k]]

\* Array.from({ length: n }, (_, i) => i)
Identity(n) == [k \in 1 .. n |-> k - 1]

\* A swap that writes indices[j] into place i and leaves place j as it is;
\* used to see that the permutation property depends on the exchange.
SwapOneWay(indices, i, j) == [indices EXCEPT ![i + 1] = indices[j + 1]]

\* [indices[i], indices[j]] = [indices[j], indices[i]], i and j from 0
Swap(indices, i, j) ==
    [indices EXCEPT ![i + 1] = indices[j + 1], ![j + 1] = indices[i + 1]]

\* The Fisher-Yates loop from i down to 1; draws[i] is what Math.random()
\* returned in the round of i, and j = Math.floor(random * (i + 1)).
RECURSIVE Shuffle(_, _, _)
Shuffle(indices, draws, i) ==
    IF i <= 0 THEN indices
    ELSE Shuffle(Swap(indices, i, (draws[i] * (i + 1)) \div FScale), draws, i - 1)

\* An index search that moves on an entry that is greater or equal, so that
\* ties go to the highest index; used to see that the accuracy property
\* depends on the strict comparison.
RECURSIVE ArgMaxLast(_, _)
ArgMaxLast(m, n) ==
    IF n = 0 THEN 0
    ELSE LET best == ArgMaxLast(m, n - 1)
         IN  IF ~NumGt(ReadAt(m.data, best), ReadAt(m.data, n - 1)) THEN n - 1 ELSE best

\* The loop that finds the index of the first largest of the first n entries
\* of m.data, as the accuracy check runs it: from index 0, moving on a
\* strictly greater entry only.
RECURSIVE ArgMax(_, _)
ArgMax(m, n) ==
    IF n = 0 THEN 0
    ELSE LET best == ArgMax(m, n - 1)
         IN  IF NumGt(ReadAt(m.data, n - 1), ReadAt(m.data, best)) THEN n - 1 ELSE best

\* train(samples, { lr, epochs, batchSize, shuffle, onEpoch }) is called
TrainCall(n, lr, epochs, batchSize, shuffle, onEpoch) ==
    /\ tr.pc = "idle"
    /\ snapshot = NoSnapshot
    /\ tr' = [NoTrain EXCEPT !.pc = "epoch", !.samples = SamplesFor(net.layerSizes, n),
                             !.lr = lr, !.epochs = epochs, !.batchSize = batchSize,
                             !.shuffle = shuffle, !.onEpoch = onEpoch]
    /\ UNCHANGED <<net, obs, snapshot, loaded>>

\* The head of the epoch loop holds: the indices are made and shuffled.
EpochBegin(draws) ==
    /\ tr.pc = "epoch"
    /\ tr.epoch < tr.epochs
    /\ LET n == Len(tr.samples)
       IN  tr' = [tr EXCEPT !.pc = "batch",
                            !.indices = IF tr.shuffle
                                        THEN Shuffle(Identity(n), draws, n - 1)
                                        ELSE Identity(n),
                            !.totalLoss = 0, !.correct = 0, !.b = 0]
    /\ obs' = [obs EXCEPT !.batches = <<>>, !.processed = <<>>, !.updates = 0]
    /\ UNCHANGED <<net, snapshot, loaded>>

\* The head of the batch loop holds: the batch is cut and the accumulators
\* are zeroed.
BatchBegin ==
    /\ tr.pc = "batch"
    /\ tr.b < Len(tr.indices)
    /\ tr.batchSize >= 1 \/ obs.updates < MaxSpin
    /\ tr' = [tr EXCEPT !.pc = "sample",
                        !.batch = Slice(tr.indices, tr.b, tr.b + tr.batchSize),
                        !.pos = 0,
                        !.accDw = [i \in 1 .. Len(net.weights) |->
                                     MatZeros(net.weights[i].rows, net.weights[i].cols)],
                        !.accDb = [i \in 1 .. Len(net.biases) |->
                                     MatZeros(net.biases[i].rows, net.biases[i].cols)]]
    /\ UNCHANGED <<net, obs, snapshot, loaded>>

\* A sample step that applies the sample's gradient at once instead of
\* accumulating it; used to see that the batch property depends on when the
\* parameters are written.
SampleStepOnline ==
    /\ tr.pc = "sample"
    /\ tr.pos < Len(tr.batch)
    /\ LET idx == tr.batch[tr.pos + 1]
           g == Backward(net, tr.samples[idx + 1].input, tr.samples[idx + 1].target)
       IN  /\ net' = [net EXCEPT
                  !.weights = [i \in 1 .. Len(net.weights) |->
                      MatSub(net.weights[i], MatScale(g.dw[i], tr.lr))],
                  !.biases = [i \in 1 .. Len(net.biases) |->
                      MatSub(net.biases[i], MatScale(g.db[i], tr.lr))]]
           /\ tr' = [tr EXCEPT !.totalLoss = NumAdd(tr.totalLoss, g.loss),
                               !.pos = tr.pos + 1]
           /\ obs' = [obs EXCEPT !.processed = Append(obs.processed, idx)]
    /\ UNCHANGED <<snapshot, loaded>>

\* One sample of the batch: backward, the accuracy check, accumulation.
SampleStep ==
    /\ tr.pc = "sample"
    /\ tr.pos < Len(tr.batch)
    /\ LET idx == tr.batch[tr.pos + 1]
           input == tr.samples[idx + 1].input
           target == tr.samples[idx + 1].target
           g == Backward(net, input, target)
           pred == Predict(net, input)
           predMax == ArgMax(pred, pred.rows)
           targMax == ArgMax(target, pred.rows)
       IN  /\ tr' = [tr EXCEPT
                  !.totalLoss = NumAdd(tr.totalLoss, g.loss),
                  !.correct = IF predMax = targMax THEN tr.correct + 1 ELSE tr.correct,
                  !.accDw = [i \in 1 .. Len(tr.accDw) |->
                               IF i <= Len(g.dw) THEN MatAdd(tr.accDw[i], g.dw[i])
                               ELSE tr.accDw[i]],
                  !.accDb = [i \in 1 .. Len(tr.accDb) |->
                               IF i <= Len(g.dw) THEN MatAdd(tr.accDb[i], g.db[i])
                               ELSE tr.accDb[i]],
                  !.pos = tr.pos + 1]
           /\ obs' = [obs EXCEPT !.processed = Append(obs.processed, idx)]
    /\ UNCHANGED <<net, snapshot, loaded>>

\* An update that divides by the configured batchSize instead of the length
\* of the batch; used to see that the update property depends on the divisor.
ApplyGradientsFixedDivisor ==
    /\ tr.pc = "sample"
    /\ tr.pos = Len(tr.batch)
    /\ LET scale == NumDiv(tr.lr, ToNum(tr.batchSize))
       IN  net' = [net EXCEPT
                  !.weights = [i \in 1 .. Len(net.weights) |->
                      MatSub(net.weights[i], MatScale(tr.accDw[i], scale))],
                  !.biases = [i \in 1 .. Len(net.biases) |->
                      MatSub(net.biases[i], MatScale(tr.accDb[i], scale))]]
    /\ tr' = [tr EXCEPT !.pc = "batch", !.b = tr.b + tr.batchSize]
    /\ obs' = [obs EXCEPT !.batches = Append(obs.batches, tr.batch),
                          !.updates = obs.updates + 1]
    /\ UNCHANGED <<snapshot, loaded>>

\* The batch is through: the gradients are applied and b moves on.
ApplyGradients ==
    /\ tr.pc = "sample"
    /\ tr.pos = Len(tr.batch)
    /\ LET scale == NumDiv(tr.lr, ToNum(Len(tr.batch)))
       IN  net' = [net EXCEPT
                  !.weights = [i \in 1 .. Len(net.weights) |->
                      MatSub(net.weights[i], MatScale(tr.accDw[i], scale))],
                  !.biases = [i \in 1 .. Len(net.biases) |->
                      MatSub(net.biases[i], MatScale(tr.accDb[i], scale))]]
    /\ tr' = [tr EXCEPT !.pc = "batch", !.b = tr.b + tr.batchSize]
    /\ obs' = [obs EXCEPT !.batches = Append(obs.batches, tr.batch),
                          !.updates = obs.updates + 1]
    /\ UNCHANGED <<snapshot, loaded>>

\* An epoch end that averages the loss over the batches instead of the
\* samples; used to see that the record property depends on the divisor.
EpochEndPerBatch ==
    /\ tr.pc = "batch"
    /\ ~(tr.b < Len(tr.indices))
    /\ LET rec == [epoch |-> tr.epoch,
                   loss |-> NumDiv(tr.totalLoss, ToNum(obs.updates)),
                   accuracy |-> NumDiv(ToNum(tr.correct), ToNum(Len(tr.samples)))]
       IN  /\ tr' = [tr EXCEPT !.pc = "epoch", !.history = Append(tr.history, rec),
                               !.epoch = tr.epoch + 1]
           /\ obs' = [obs EXCEPT !.calls = IF tr.onEpoch THEN Append(obs.calls, rec)
                                           ELSE obs.calls]
    /\ UNCHANGED <<net, snapshot, loaded>>

\* An epoch end that numbers the records from 1; used to see that the
\* history property depends on the record pushed.
EpochEndOneBased ==
    /\ tr.pc = "batch"
    /\ ~(tr.b < Len(tr.indices))
    /\ LET rec == [epoch |-> tr.epoch + 1,
                   loss |-> NumDiv(tr.totalLoss, ToNum(Len(tr.samples))),
                   accuracy |-> NumDiv(ToNum(tr.correct), ToNum(Len(tr.samples)))]
       IN  /\ tr' = [tr EXCEPT !.pc = "epoch", !.history = Append(tr.history, rec),
                               !.epoch = tr.epoch + 1]
           /\ obs' = [obs EXCEPT !.calls = IF tr.onEpoch THEN Append(obs.calls, rec)
                                           ELSE obs.calls]
    /\ UNCHANGED <<net, snapshot, loaded>>

\* The batch loop is over: the epoch's record is pushed and onEpoch called.
EpochEnd ==
    /\ tr.pc = "batch"
    /\ ~(tr.b < Len(tr.indices))
    /\ LET rec == [epoch |-> tr.epoch,
                   loss |-> NumDiv(tr.totalLoss, ToNum(Len(tr.samples))),
                   accuracy |-> NumDiv(ToNum(tr.correct), ToNum(Len(tr.samples)))]
       IN  /\ tr' = [tr EXCEPT !.pc = "epoch", !.history = Append(tr.history, rec),
                               !.epoch = tr.epoch + 1]
           /\ obs' = [obs EXCEPT !.calls = IF tr.onEpoch THEN Append(obs.calls, rec)
                                           ELSE obs.calls]
    /\ UNCHANGED <<net, snapshot, loaded>>

\* The epoch loop is over: train returns the history.
TrainReturn ==
    /\ tr.pc = "epoch"
    /\ ~(tr.epoch < tr.epochs)
    /\ tr' = [tr EXCEPT !.pc = "returned"]
    /\ UNCHANGED <<net, obs, snapshot, loaded>>

\* net.save()
SaveNet ==
    /\ tr.pc \in {"idle", "returned"}
    /\ snapshot = NoSnapshot
    /\ snapshot' = Save(net)
    /\ UNCHANGED <<net, tr, obs, loaded>>

\* What a caller may hand to Network.load in place of the snapshot s.
SnapshotVariants ==
    {"asSaved", "noLayerSizes", "noActivation", "noWeights", "noBiases",
     "shortData", "longData", "dropLayer"}

DropLast(q) == [k \in 1 .. Len(q) - 1 |-> q[k]]

Variant(s, v) ==
    CASE v = "asSaved" -> s
      [] v = "noLayerSizes" -> [s EXCEPT !.has = @ \ {"layerSizes"}]
      [] v = "noActivation" -> [s EXCEPT !.has = @ \ {"hiddenActivation"}]
      [] v = "noWeights" -> [s EXCEPT !.has = @ \ {"weights"}]
      [] v = "noBiases" -> [s EXCEPT !.has = @ \ {"biases"}]
      [] v = "shortData" -> [s EXCEPT !.weights[1].data = DropLast(@)]
      [] v = "longData" -> [s EXCEPT !.weights[1].data = Append(@, One)]
      [] v = "dropLayer" -> [s EXCEPT !.weights = DropLast(@)]

\* A load that writes what it read into the network at hand instead of a new
\* one; used to see that the ownership property depends on load being static.
LoadNetInto(v, seed) ==
    /\ snapshot # NoSnapshot
    /\ loaded = NoLoad
    /\ LET data == Variant(snapshot, v)
           r == Load(data, IF "layerSizes" \in data.has
                           THEN XavierDraws(data.layerSizes, seed) ELSE <<>>)
       IN  /\ loaded' = [outcome |-> r.outcome, net |-> r.net, given |-> data]
           /\ net' = IF r.outcome = "returned" THEN r.net ELSE net
    /\ UNCHANGED <<tr, obs, snapshot>>

\* Network.load(json)
LoadNet(v, seed) ==
    /\ snapshot # NoSnapshot
    /\ loaded = NoLoad
    /\ LET data == Variant(snapshot, v)
           r == Load(data, IF "layerSizes" \in data.has
                           THEN XavierDraws(data.layerSizes, seed) ELSE <<>>)
       IN  loaded' = [outcome |-> r.outcome, net |-> r.net, given |-> data]
    /\ UNCHANGED <<net, tr, obs, snapshot>>

TrainSteps ==
    \/ /\ tr.pc = "epoch"
       /\ \E draws \in [1 .. Len(tr.samples) - 1 -> RandomDraws] :
             /\ tr.shuffle \/ \A k \in DOMAIN draws : draws[k] = 0
             /\ EpochBegin(draws)
             /\ UNCHANGED <<mvars, xvars>>
    \/ BatchBegin /\ UNCHANGED <<mvars, xvars>>
    \/ SampleStep /\ UNCHANGED <<mvars, xvars>>
    \/ ApplyGradients /\ UNCHANGED <<mvars, xvars>>
    \/ EpochEnd /\ UNCHANGED <<mvars, xvars>>
    \/ TrainReturn /\ UNCHANGED <<mvars, xvars>>

TrainInputs == (0 .. MaxSamples) \X {-Half, 0, Half, FMax} \X (-1 .. MaxEpochs)
               \X (-1 .. MaxSamples + 1) \X BOOLEAN \X BOOLEAN

\* ------------------------------------------------------------------------
\* softmax and Network.forward / predict, applied to drawn arguments
\* ------------------------------------------------------------------------

\* The longest vector softmax is given.
MaxVec == 3

\* The entries of the vectors softmax is given: finite ones, near and far
\* apart, the infinities and NaN.
VecValues == {NInf, -FMax, -3 * FScale, -1, 0, 1, FScale, 3 * FScale, FMax, PInf, NaN}

Vectors == UNION {[1 .. n -> VecValues] : n \in 1 .. MaxVec}

\* The entries of the inputs forward is given.
InputValues == {-One, 0, One, 2 * One}

\* ev: the call drawn (op, net, input, target), whether it has returned, and
\* what it returned (zs, as, out; dw, db, loss).  own[i] is the heap at
\* `db[i] = delta.clone()`: the delta's object and the object db[i] holds.
NoEval == [op |-> "none", done |-> FALSE, net |-> NoNet, input |-> MatZeros(0, 1),
           zs |-> <<>>, as |-> <<>>, out |-> MatZeros(0, 1),
           target |-> MatZeros(0, 1), dw |-> <<>>, db |-> <<>>, loss |-> 0, own |-> <<>>]

\* A network as load or training leaves it: the biases are no longer zero.
FnNet(n, seed) ==
    LET fresh == NetworkNew(n[1], n[2], XavierDraws(n[1], seed))
    IN  [fresh EXCEPT !.biases =
            Elements([i \in 1 .. Len(fresh.biases) |->
                Mat(fresh.biases[i].rows, 1,
                    [k \in 1 .. fresh.biases[i].rows |-> (((seed + i + k) % 3) - 1) * Half])])]

\* The networks forward is called on: one, two and three layers of weights.
FnNets == SerialNets \cup {<<<<2, 2, 1, 2>>, "relu">>, <<<<2, 2, 1, 2>>, "tanh">>}

\* The calls drawn: softmax(v), and nw.forward(x) with nw.predict(x).
EvalCalls ==
    {[NoEval EXCEPT !.op = "softmax", !.input = MatFromArray(v)] : v \in Vectors}
    \cup UNION {UNION {{[NoEval EXCEPT !.op = "forward", !.net = FnNet(n, seed),
                                       !.input = MatFromArray(x)] :
                           x \in [1 .. n[1][1] -> InputValues]} :
                       seed \in XavierSeeds} : n \in FnNets}
    \cup UNION {UNION {{[NoEval EXCEPT !.op = "backward", !.net = FnNet(n, seed),
                                       !.input = MatFromArray(x),
                                       !.target = MatFromArray(
                                          [c \in 1 .. n[1][Len(n[1])] |->
                                              IF c = hot THEN One ELSE 0])] :
                           x \in [1 .. n[1][1] -> InputValues],
                           hot \in 1 .. n[1][Len(n[1])]} :
                       seed \in XavierSeeds} : n \in FnNets}

\* softmax(ev.input)
EvalSoftmax ==
    /\ ev.op = "softmax" /\ ~ev.done
    /\ ev' = [ev EXCEPT !.done = TRUE, !.out = Softmax(ev.input)]
    /\ UNCHANGED <<sa, rm, zvars>>

\* ev.net.forward(ev.input) and ev.net.predict(ev.input)
EvalForward ==
    /\ ev.op = "forward" /\ ~ev.done
    /\ LET t == Forward(ev.net, ev.input)
       IN  ev' = [ev EXCEPT !.done = TRUE, !.zs = t.zs, !.as = t.as,
                            !.out = Predict(ev.net, ev.input)]
    /\ UNCHANGED <<sa, rm, zvars>>

\* ev.net.backward(ev.input, ev.target)
EvalBackward ==
    /\ ev.op = "backward" /\ ~ev.done
    /\ LET t == Forward(ev.net, ev.input)
           g == Backward(ev.net, ev.input, ev.target)
           L == Len(ev.net.weights)
       IN  ev' = [ev EXCEPT
                    !.done = TRUE, !.zs = t.zs, !.as = t.as,
                    !.dw = g.dw, !.db = g.db, !.loss = g.loss,
                    !.own = [i \in 1 .. L |->
                               LET delta == BackDelta(ev.net, t, ev.target, i)
                                   c == CloneObj(<<delta.data>>,
                                                 MatObj(delta.rows, delta.cols, 1))
                               IN  [heap |-> c.heap,
                                    delta |-> MatObj(delta.rows, delta.cols, 1),
                                    db |-> c.obj]]]
    /\ UNCHANGED <<sa, rm, zvars>>

\* ------------------------------------------------------------------------
\* sentiment.js: tokenize, Vocabulary, SentimentAnalyzer
\* ------------------------------------------------------------------------

\* A text is a sequence of characters.  toLowerCase on the characters drawn.
Lower(c) == CASE c = "A" -> "a" [] c = "B" -> "b" [] OTHER -> c

\* The characters drawn that /[^a-z0-9\s]/ leaves alone.
Kept == {"a", "b", "c", " "}

\* text.toLowerCase().replace(/[^a-z0-9\s]/g, ' ')
Clean(text) ==
    [k \in 1 .. Len(text) |-> IF Lower(text[k]) \in Kept THEN Lower(text[k]) ELSE " "]

\* split(/\s+/) over the first n characters: the tokens closed and the one open.
RECURSIVE SplitUpTo(_, _)
SplitUpTo(chars, n) ==
    IF n = 0 THEN [tokens |-> <<>>, cur |-> <<>>]
    ELSE LET r == SplitUpTo(chars, n - 1)
         IN  IF chars[n] = " "
             THEN [tokens |-> IF r.cur = <<>> THEN r.tokens ELSE Append(r.tokens, r.cur),
                   cur |-> <<>>]
             ELSE [tokens |-> r.tokens, cur |-> Append(r.cur, chars[n])]

\* tokenize(text): the non-empty pieces between whitespace
Tokenize(text) ==
    LET r == SplitUpTo(Clean(text), Len(text))
    IN  IF r.cur = <<>> THEN r.tokens ELSE Append(r.tokens, r.cur)

\* EMOTIONS, cut to two labels.
Emotions == <<"joy", "neutral">>

\* trainingData, cut to three labelled texts: "a b", "B!" and "b ab".
TrainingData ==
    <<[text |-> <<"a", " ", "b">>, emotion |-> "joy"],
      [text |-> <<"B", "!">>, emotion |-> "neutral"],
      [text |-> <<"b", " ", "a", "b">>, emotion |-> "joy"]>>

\* The tokens of the first n texts, in order.
RECURSIVE TokensOf(_, _)
TokensOf(texts, n) ==
    IF n = 0 THEN <<>> ELSE TokensOf(texts, n - 1) \o Tokenize(texts[n])

\* build: freq.get(w)
Count(tokens, w) == Cardinality({k \in DOMAIN tokens : tokens[k] = w})

\* build: the keys of freq, in the order they were first set
RECURSIVE FirstSeen(_, _)
FirstSeen(tokens, n) ==
    IF n = 0 THEN <<>>
    ELSE LET p == FirstSeen(tokens, n - 1)
         IN  IF \E k \in DOMAIN p : p[k] = tokens[n] THEN p ELSE Append(p, tokens[n])

\* build: the first n keys sorted by frequency, largest first, ties in order
RECURSIVE SortedByFreq(_, _, _)
SortedByFreq(words, tokens, n) ==
    IF n = 0 THEN <<>>
    ELSE LET p == SortedByFreq(words, tokens, n - 1)
             w == words[n]
             pos == Cardinality({k \in DOMAIN p : Count(tokens, p[k]) >= Count(tokens, w)})
         IN  SubSeq(p, 1, pos) \o <<w>> \o SubSeq(p, pos + 1, Len(p))

\* this.vocab is null
NoVocab == [null |-> TRUE, maxSize |-> 0, words |-> <<>>]

\* new Vocabulary(maxSize).build(texts)
VocabBuild(maxSize, texts) ==
    LET tokens == TokensOf(texts, Len(texts))
        words == FirstSeen(tokens, Len(tokens))
    IN  [null |-> FALSE, maxSize |-> maxSize,
         words |-> Slice(SortedByFreq(words, tokens, Len(words)), 0, maxSize)]

\* vocab.size
VocabSize(vocab) == Len(vocab.words)

\* vocab.encode(text)
Encode(vocab, text) ==
    LET tokens == Tokenize(text)
    IN  Mat(VocabSize(vocab), 1,
            [k \in 1 .. VocabSize(vocab) |->
                IF \E t \in DOMAIN tokens : tokens[t] = vocab.words[k] THEN One ELSE 0])

\* Vocabulary.fromJSON(JSON.parse(JSON.stringify(vocab.toJSON())))
VocabFromJSON(j) == [null |-> FALSE, maxSize |-> j.maxSize, words |-> j.words]

\* new SentimentAnalyzer({ vocabSize, hiddenSize, windowSize })
SaNew(vocabSize, hiddenSize, windowSize) ==
    [vocabSize |-> vocabSize, hiddenSize |-> hiddenSize, windowSize |-> windowSize,
     vocab |-> NoVocab, network |-> NoNet, window |-> <<>>]

\* An analyze that only looks for the vocabulary; used to see that the
\* property of analyze depends on both tests.
AnalyzeChecksVocabOnly(this, text) ==
    IF this.vocab.null
    THEN [outcome |-> "Model not trained or loaded", scores |-> <<>>]
    ELSE IF this.network = NoNet
    THEN [outcome |-> "TypeError", scores |-> <<>>]
    ELSE LET output == Predict(this.network, Encode(this.vocab, text))
         IN  [outcome |-> "returned",
              scores |-> [i \in 1 .. Len(Emotions) |-> ReadAt(output.data, i - 1)]]

\* this.analyze(text)
Analyze(this, text) ==
    IF this.network = NoNet \/ this.vocab.null
    THEN [outcome |-> "Model not trained or loaded", scores |-> <<>>]
    ELSE LET output == Predict(this.network, Encode(this.vocab, text))
         IN  [outcome |-> "returned",
              scores |-> [i \in 1 .. Len(Emotions) |-> ReadAt(output.data, i - 1)]]

\* A window that drops the line just pushed when it is full; used to see
\* that the window property depends on which end is evicted.
WindowAfterKeepOldest(window, text, windowSize) ==
    LET w == Append(window, text)
    IN  IF Len(w) > windowSize THEN SubSeq(w, 1, Len(w) - 1) ELSE w

\* push: this.window.push(text); if (length > windowSize) this.window.shift()
WindowAfter(window, text, windowSize) ==
    LET w == Append(window, text)
    IN  IF Len(w) > windowSize THEN Tail(w) ELSE w

\* push: combined after the first n lines of the window, or the throw of analyze
RECURSIVE Combined(_, _, _)
Combined(this, window, n) ==
    IF n = 0 THEN [outcome |-> "returned", scores |-> [i \in 1 .. Len(Emotions) |-> 0]]
    ELSE LET p == Combined(this, window, n - 1)
             a == Analyze(this, window[n])
         IN  IF p.outcome # "returned" THEN p
             ELSE IF a.outcome # "returned" THEN a
             ELSE [outcome |-> "returned",
                   scores |-> [i \in 1 .. Len(Emotions) |-> NumAdd(p.scores[i], a.scores[i])]]

\* A push that analyses the window and the line first and records the line
\* only when that returned; used to see that the window property depends on
\* the line being recorded before the analysis.
PushAnalysesFirst(this, text) ==
    LET w == WindowAfter(this.window, text, this.windowSize)
        c == Combined(this, w, Len(w))
    IN  [window |-> IF c.outcome = "returned" THEN w ELSE this.window,
         outcome |-> c.outcome,
         scores |-> IF c.outcome = "returned"
                    THEN [i \in 1 .. Len(Emotions) |-> NumDiv(c.scores[i], ToNum(Len(w)))]
                    ELSE <<>>]

\* this.push(text): the window it leaves and what it returns or throws
Push(this, text) ==
    LET w == WindowAfter(this.window, text, this.windowSize)
        c == Combined(this, w, Len(w))
    IN  [window |-> w,
         outcome |-> c.outcome,
         scores |-> IF c.outcome = "returned"
                    THEN [i \in 1 .. Len(Emotions) |-> NumDiv(c.scores[i], ToNum(Len(w)))]
                    ELSE <<>>]

\* The largest windowSize an analyzer is built with.
MaxWindow == 2

\* The most lines pushed into one analyzer.
MaxPush == 3

\* The arguments of the constructor: a hiddenSize of -1 makes new Network throw.
SaConfigs ==
    {SaNew(v, h, w) : v \in {1, 2}, h \in {-1, 1}, w \in 0 .. MaxWindow}

\* The lines pushed and analyzed: " A!" and "b!c".
Lines == {<<" ", "A", "!">>, <<"b", "!", "c">>}

NoFile == [written |-> FALSE]
NoSaCall == [op |-> "none", outcome |-> "none", text |-> <<>>, scores |-> <<>>]

\* sa: the analyzer (this), the file save wrote, the lines pushed into this
\* analyzer so far, and the last call with what it returned or threw.
SaStart(this) == [this |-> this, file |-> NoFile, pushed |-> <<>>, call |-> NoSaCall]

\* this.prepare(): the vocabulary is set before new Network can throw; seed
\* stands for what Math.random() returns
Prepare(this, seed) ==
    LET vocab == VocabBuild(this.vocabSize, [k \in 1 .. Len(TrainingData) |-> TrainingData[k].text])
        layerSizes == <<VocabSize(vocab), this.hiddenSize, Len(Emotions)>>
    IN  IF this.hiddenSize * VocabSize(vocab) < 0
        THEN [outcome |-> "RangeError", this |-> [this EXCEPT !.vocab = vocab]]
        ELSE [outcome |-> "returned",
              this |-> [this EXCEPT !.vocab = vocab,
                           !.network = NetworkNew(layerSizes, "relu",
                                                  XavierDraws(layerSizes, seed))]]

\* sa.prepare()
SaPrepare ==
    /\ LET r == Prepare(sa.this, 0)
       IN  sa' = [sa EXCEPT !.this = r.this,
                            !.call = [NoSaCall EXCEPT !.op = "prepare", !.outcome = r.outcome]]
    /\ UNCHANGED <<ev, rm, zvars>>

\* sa.train(): prepare, then network.train, which leaves a network of the
\* same shape with other weights and biases
SaTrain(seed) ==
    /\ LET r == Prepare(sa.this, seed)
       IN  sa' = [sa EXCEPT
                    !.this = IF r.outcome = "returned"
                             THEN [r.this EXCEPT !.network =
                                      FnNet(<<r.this.network.layerSizes, "relu">>, seed)]
                             ELSE r.this,
                    !.call = [NoSaCall EXCEPT !.op = "train", !.outcome = r.outcome]]
    /\ UNCHANGED <<ev, rm, zvars>>

\* sa.analyze(text)
SaAnalyze(text) ==
    /\ LET r == Analyze(sa.this, text)
       IN  sa' = [sa EXCEPT !.call = [op |-> "analyze", outcome |-> r.outcome,
                                      text |-> text, scores |-> r.scores]]
    /\ UNCHANGED <<ev, rm, zvars>>

\* sa.push(text)
SaPush(text) ==
    /\ Len(sa.pushed) < MaxPush
    /\ LET r == Push(sa.this, text)
       IN  sa' = [sa EXCEPT !.this.window = r.window,
                            !.pushed = Append(@, text),
                            !.call = [op |-> "push", outcome |-> r.outcome,
                                      text |-> text, scores |-> r.scores]]
    /\ UNCHANGED <<ev, rm, zvars>>

\* sa.save(path): this.vocab.toJSON() and this.network.save() throw on null
SaSave ==
    /\ LET this == sa.this
       IN  IF this.vocab.null \/ this.network = NoNet
           THEN sa' = [sa EXCEPT !.call = [NoSaCall EXCEPT !.op = "save", !.outcome = "TypeError"]]
           ELSE sa' = [sa EXCEPT
                         !.file = [written |-> TRUE,
                                   vocabSize |-> this.vocabSize,
                                   hiddenSize |-> this.hiddenSize,
                                   windowSize |-> this.windowSize,
                                   vocab |-> [maxSize |-> this.vocab.maxSize,
                                              words |-> this.vocab.words],
                                   network |-> Save(this.network)],
                         !.call = [NoSaCall EXCEPT !.op = "save", !.outcome = "returned"]]
    /\ UNCHANGED <<ev, rm, zvars>>

\* sa = SentimentAnalyzer.load(path): a new analyzer, its window empty
SaLoad ==
    /\ sa.file.written
    /\ LET data == sa.file
           fresh == SaNew(data.vocabSize, data.hiddenSize, data.windowSize)
           r == Load(data.network, XavierDraws(data.network.layerSizes, 0))
       IN  sa' = [this |-> [fresh EXCEPT !.vocab = VocabFromJSON(data.vocab),
                                         !.network = r.net],
                  file |-> sa.file,
                  pushed |-> <<>>,
                  call |-> [NoSaCall EXCEPT !.op = "load", !.outcome = r.outcome]]
    /\ UNCHANGED <<ev, rm, zvars>>

\* ------------------------------------------------------------------------
\* renderer.js: RendererManager
\* ------------------------------------------------------------------------

\* The renderer modules: json has a synchronous init and close, canvas has
\* asynchronous ones and an init that can reject (the port is taken).
Plugins == {"json", "canvas"}

\* The names use is given; there is no module for "missing".
ModuleNames == Plugins \cup {"missing"}

\* The most calls made on one manager.
MaxCalls == 4

\* The most calls in flight (made and not settled) at a time.
MaxPending == 2

NoTask == [op |-> "none", pc |-> "none", name |-> "null", load |-> 0]
NoRmCall == [op |-> "none", outcome |-> "none", loaded |-> FALSE]

\* new RendererManager(): renderer and name are null.  loads records, for each
\* module use has installed, that init was called and how it settled, how often its
\* close was called and whether render reached it; load is the index of the
\* one installed now; tasks are the calls in flight, each at its await; call
\* is the last call made with what its synchronous part did.
RmNew ==
    [renderer |-> "null", name |-> "null", load |-> 0, loads |-> <<>>,
     tasks |-> [s \in 1 .. MaxPending |-> NoTask], calls |-> 0, call |-> NoRmCall]

\* A slot for a call in flight.
FreeSlots == {s \in 1 .. MaxPending : rm.tasks[s] = NoTask}

\* use(name), up to `await import(...)`
RmUse(name) ==
    /\ rm.calls < MaxCalls
    /\ \E s \in FreeSlots :
          /\ \A t \in FreeSlots : s <= t
          /\ rm' = [rm EXCEPT !.tasks[s] = [NoTask EXCEPT !.op = "use", !.pc = "import", !.name = name],
                              !.calls = @ + 1,
                              !.call = [op |-> "use", outcome |-> "pending",
                                        loaded |-> rm.renderer # "null"]]
    /\ UNCHANGED <<ev, sa, zvars>>

\* use: the import settles.  It rejects for a name without a module; else
\* renderer and name are set and init is called, up to `await init(config)`.
RmUseImported(s) ==
    /\ rm.tasks[s].op = "use" /\ rm.tasks[s].pc = "import"
    /\ IF rm.tasks[s].name \notin Plugins
       THEN rm' = [rm EXCEPT !.tasks[s] = NoTask]
       ELSE rm' = [rm EXCEPT
                     !.renderer = rm.tasks[s].name,
                     !.name = rm.tasks[s].name,
                     !.loads = Append(@, [plugin |-> rm.tasks[s].name, initCalled |-> TRUE,
                                          init |-> "pending", closeCalls |-> 0,
                                          rendered |-> FALSE]),
                     !.load = Len(rm.loads) + 1,
                     !.tasks[s] = [rm.tasks[s] EXCEPT !.pc = "init", !.load = Len(rm.loads) + 1]]
    /\ UNCHANGED <<ev, sa, zvars>>

\* use: init settles (canvas may reject) and use returns or rejects
RmUseInitSettled(s, ok) ==
    /\ rm.tasks[s].op = "use" /\ rm.tasks[s].pc = "init"
    /\ ok \/ rm.tasks[s].name = "canvas"
    /\ rm' = [rm EXCEPT !.loads[rm.tasks[s].load].init = IF ok THEN "resolved" ELSE "rejected",
                        !.tasks[s] = NoTask]
    /\ UNCHANGED <<ev, sa, zvars>>

\* render(frame), up to `await this.renderer.render(frame)`: it throws when
\* renderer is null, else the module's render is called
RmRender ==
    /\ rm.calls < MaxCalls
    /\ \E s \in FreeSlots :
          /\ \A t \in FreeSlots : s <= t
          /\ IF rm.renderer = "null"
             THEN rm' = [rm EXCEPT !.calls = @ + 1,
                                   !.call = [op |-> "render", outcome |-> "No renderer loaded",
                                             loaded |-> FALSE]]
             ELSE rm' = [rm EXCEPT !.calls = @ + 1,
                                   !.loads[rm.load].rendered = TRUE,
                                   !.tasks[s] = [NoTask EXCEPT !.op = "render", !.pc = "render",
                                                               !.load = rm.load],
                                   !.call = [op |-> "render", outcome |-> "rendered",
                                             loaded |-> TRUE]]
    /\ UNCHANGED <<ev, sa, zvars>>

\* render: the await settles and render returns
RmRenderSettled(s) ==
    /\ rm.tasks[s].op = "render" /\ rm.tasks[s].pc = "render"
    /\ rm' = [rm EXCEPT !.tasks[s] = NoTask]
    /\ UNCHANGED <<ev, sa, zvars>>

\* close(), up to `await this.renderer.close()`: with a renderer its close is
\* called; without one the fields are set to null at once
RmClose ==
    /\ rm.calls < MaxCalls
    /\ \E s \in FreeSlots :
          /\ \A t \in FreeSlots : s <= t
          /\ IF rm.renderer = "null"
             THEN rm' = [rm EXCEPT !.calls = @ + 1,
                                   !.renderer = "null", !.name = "null", !.load = 0,
                                   !.call = [op |-> "close", outcome |-> "returned",
                                             loaded |-> FALSE]]
             ELSE rm' = [rm EXCEPT !.calls = @ + 1,
                                   !.loads[rm.load].closeCalls = @ + 1,
                                   !.tasks[s] = [NoTask EXCEPT !.op = "close", !.pc = "close",
                                                               !.load = rm.load],
                                   !.call = [op |-> "close", outcome |-> "pending",
                                             loaded |-> TRUE]]
    /\ UNCHANGED <<ev, sa, zvars>>

\* close: the await settles; renderer and name are set to null
RmCloseSettled(s) ==
    /\ rm.tasks[s].op = "close" /\ rm.tasks[s].pc = "close"
    /\ rm' = [rm EXCEPT !.renderer = "null", !.name = "null", !.load = 0,
                        !.tasks[s] = NoTask]
    /\ UNCHANGED <<ev, sa, zvars>>

\* ------------------------------------------------------------------------
\* landmarks.js: deform;  expression.js: ExpressionMapper
\* ------------------------------------------------------------------------

\* landmarks, cut to two points.
Landmarks == <<[name |-> "brow_L_inner", x |-> One + 1, y |-> One],
               [name |-> "mouth_L", x |-> One + 2, y |-> 3 * One]>>

\* deformations[emotion][i], cut to the two points; neutral moves nothing.
Deformations(emotion) ==
    CASE emotion = "joy" -> <<[dx |-> 0, dy |-> -One], [dx |-> -One, dy |-> -2 * One]>>
      [] emotion = "neutral" -> <<[dx |-> 0, dy |-> 0], [dx |-> 0, dy |-> 0]>>

\* deform: dx (or dy) of point i after the first n entries of scores
RECURSIVE DeformSum(_, _, _, _)
DeformSum(scores, i, axis, n) ==
    IF n = 0 THEN 0
    ELSE NumAdd(DeformSum(scores, i, axis, n - 1),
                NumMul(IF axis = "x" THEN Deformations(Emotions[n])[i].dx
                       ELSE Deformations(Emotions[n])[i].dy,
                       scores[n]))

\* deform(scores); scores[n] is the score of Emotions[n]
Deform(scores) ==
    [i \in 1 .. Len(Landmarks) |->
        [name |-> Landmarks[i].name,
         x |-> NumAdd(Landmarks[i].x, DeformSum(scores, i, "x", Len(Emotions))),
         y |-> NumAdd(Landmarks[i].y, DeformSum(scores, i, "y", Len(Emotions)))]]

\* for (const e of EMOTIONS) this.current[e] = e === 'neutral' ? 1 : 0
NeutralCurrent == [n \in 1 .. Len(Emotions) |-> IF Emotions[n] = "neutral" THEN One ELSE 0]

\* new ExpressionMapper({ smoothing }); startTime is left out with the clock
EmNew(smoothing) == [smoothing |-> smoothing, current |-> NeutralCurrent]

\* frame: the first key whose value is above every earlier one, from -1
RECURSIVE BestUpTo(_, _)
BestUpTo(sentiment, n) ==
    IF n = 0 THEN [best |-> "null", bestVal |-> -One]
    ELSE LET p == BestUpTo(sentiment, n - 1)
         IN  IF NumGt(sentiment[n], p.bestVal)
             THEN [best |-> Emotions[n], bestVal |-> sentiment[n]]
             ELSE p

\* this.frame(), without the timestamp
Frame(this) ==
    [sentiment |-> this.current,
     dominant |-> BestUpTo(this.current, Len(Emotions)).best,
     points |-> Deform(this.current)]

\* rawScores[e] || 0: undefined, null, NaN and 0 give 0
RawOrZero(raw) == IF raw = NaN \/ raw = JNull THEN 0 ELSE raw

\* update: the blend, before the normalisation
Blend(this, rawScores) ==
    [n \in 1 .. Len(Emotions) |->
        NumAdd(NumMul(this.smoothing, this.current[n]),
               NumMul(NumSub(One, this.smoothing), RawOrZero(rawScores[n])))]

\* update: sum += this.current[e], over the first n emotions
RECURSIVE CurrentSum(_, _)
CurrentSum(current, n) ==
    IF n = 0 THEN 0 ELSE NumAdd(CurrentSum(current, n - 1), current[n])

\* this.update(rawScores): this.current afterwards
Update(this, rawScores) ==
    LET blended == Blend(this, rawScores)
        sum == CurrentSum(blended, Len(Emotions))
    IN  IF NumGt(sum, 0)
        THEN [n \in 1 .. Len(Emotions) |-> NumDiv(blended[n], sum)]
        ELSE blended

\* The smoothing factors drawn: 0, 1/4, 1/2, 3/4 and 1.
Smoothings == 0 .. One

\* The raw scores drawn for one emotion: missing, negative, 0, fractions, 1,
\* above 1 and Infinity.
RawValues == {JNull, -One, 0, 1, Half, One, 3 * One, PInf}

\* The most update calls on one mapper.
MaxUpdates == 2

\* em: the mapper (this), the frame its constructor state gives, the last
\* call with the scores it found and the frame it returned or, for reset, the
\* frame that follows it, and the number of updates so far.
EmStart(this) ==
    [this |-> this, first |-> Frame(this), updates |-> 0,
     call |-> [op |-> "new", from |-> <<>>, frame |-> Frame(this)]]

\* em.update(rawScores)
EmUpdate(rawScores) ==
    /\ em.updates < MaxUpdates
    /\ LET this == [em.this EXCEPT !.current = Update(em.this, rawScores)]
       IN  em' = [em EXCEPT !.this = this, !.updates = @ + 1,
                            !.call = [op |-> "update", from |-> em.this.current,
                                      frame |-> Frame(this)]]
    /\ UNCHANGED <<ev, sa, rm, run>>

\* em.frame()
EmFrame ==
    /\ em.call.op # "frame"
    /\ em' = [em EXCEPT !.call = [op |-> "frame", from |-> em.this.current,
                                   frame |-> Frame(em.this)]]
    /\ UNCHANGED <<ev, sa, rm, run>>

\* A reset that only clears the emotions other than neutral; used to see that
\* the reset property depends on neutral being set to 1.
ResetOthersOnly(this) ==
    [this EXCEPT !.current =
        [n \in 1 .. Len(Emotions) |-> IF Emotions[n] = "neutral" THEN this.current[n] ELSE 0]]

\* this.reset()
Reset(this) == [this EXCEPT !.current = NeutralCurrent]

\* em.reset(), then em.frame()
EmReset ==
    /\ em.call.op # "reset"
    /\ LET this == Reset(em.this)
       IN  em' = [em EXCEPT !.this = this,
                            !.call = [op |-> "reset", from |-> em.this.current,
                                      frame |-> Frame(this)]]
    /\ UNCHANGED <<ev, sa, rm, run>>

\* The mapper as constructed and not called.
InitMapperVars == em = EmStart(EmNew(Half))

\* ------------------------------------------------------------------------
\* face.js: cmdRun, from the first tick on
\* ------------------------------------------------------------------------

\* line.trim(), for the whitespace drawn
RECURSIVE TrimLeft(_)
TrimLeft(text) == IF text # <<>> /\ Head(text) = " " THEN TrimLeft(Tail(text)) ELSE text

RECURSIVE TrimRight(_)
TrimRight(text) ==
    IF text # <<>> /\ text[Len(text)] = " "
    THEN TrimRight(SubSeq(text, 1, Len(text) - 1)) ELSE text

\* A trim that leaves the line as it is; used to see that skipping the empty
\* lines depends on the trim.
TrimNothing(text) == text

Trim(text) == TrimRight(TrimLeft(text))

\* An interval that clearInterval leaves running; used to see that the end of
\* the ticks depends on the handlers clearing it.
IntervalKept(interval) == interval

\* clearInterval(interval)
IntervalCleared(interval) == FALSE

\* The lines stdin delivers: those of Lines, a blank one and an empty one.
StdinLines == Lines \cup {<<" ">>, <<>>}

\* The most lines stdin delivers, and the most ticks of the interval.
MaxLines == 2
MaxTicks == 2

\* SentimentAnalyzer.load(WEIGHTS_PATH): an analyzer `face train` trained
RunAnalyzer ==
    LET this == Prepare(SaNew(2, 1, MaxWindow), 0).this
    IN  [this EXCEPT !.network = FnNet(<<this.network.layerSizes, "relu">>, 0)]

\* rm after `await rm.use(rendererName)` has returned for the module plugin
RunManager(plugin) ==
    [RmNew EXCEPT !.renderer = plugin, !.name = plugin, !.load = 1,
                  !.loads = <<[plugin |-> plugin, initCalled |-> TRUE, init |-> "resolved",
                               closeCalls |-> 0, rendered |-> FALSE]>>]

\* run: the process (alive, how it ended), the interval, stdin, latestFrame,
\* the handlers waiting at `await rm.close()`, and what has happened: the lines
\* received, the frames rendered and by whom, the steps of the handlers in
\* order, whether a render found no renderer.
RunIdle ==
    [started |-> FALSE, alive |-> FALSE, exit |-> "none", interval |-> FALSE,
     stdin |-> FALSE, latestFrame |-> Frame(EmNew(Half)), pending |-> {},
     sigint |-> FALSE, received |-> <<>>, rendered |-> <<>>, log |-> <<>>,
     failed |-> FALSE]

RunStarted(this) ==
    [RunIdle EXCEPT !.started = TRUE, !.alive = TRUE, !.interval = TRUE, !.stdin = TRUE,
                    !.latestFrame = Frame(this)]

\* rm.render(frame) up to its await: whether it throws, and rm afterwards
RenderCall(m) ==
    IF m.renderer = "null" THEN [threw |-> TRUE, rm |-> m]
    ELSE [threw |-> FALSE, rm |-> [m EXCEPT !.loads[m.load].rendered = TRUE]]

\* rm.close() up to its await on the module's close: whether it waits there
\* (canvas) or goes on at once (no renderer, or a synchronous close)
CloseCall(m) ==
    IF m.renderer = "null"
    THEN [waits |-> FALSE, rm |-> m]
    ELSE LET called == [m EXCEPT !.loads[m.load].closeCalls = @ + 1]
         IN  IF m.renderer = "canvas"
             THEN [waits |-> TRUE, rm |-> called]
             ELSE [waits |-> FALSE,
                   rm |-> [called EXCEPT !.renderer = "null", !.name = "null", !.load = 0]]

\* setInterval callback: await rm.render(latestFrame); a throw is an unhandled
\* rejection, which ends the process
RunTick ==
    /\ run.alive /\ run.interval
    /\ Len(SelectSeq(run.rendered, LAMBDA r : r.by = "tick")) < MaxTicks
    /\ LET r == RenderCall(rm)
       IN  /\ rm' = r.rm
           /\ run' = IF r.threw
                     THEN [run EXCEPT !.failed = TRUE, !.alive = FALSE,
                                      !.exit = "unhandled rejection"]
                     ELSE [run EXCEPT !.rendered = Append(@, [by |-> "tick",
                                                              frame |-> run.latestFrame]),
                                      !.log = Append(@, "tick")]
    /\ UNCHANGED <<ev, sa, em>>

\* rl.on('line'): an empty trimmed line is skipped; else push and update
RunLine(line) ==
    /\ run.alive /\ run.stdin
    /\ Len(run.received) < MaxLines
    /\ LET trimmed == Trim(line)
       IN  IF trimmed = <<>>
           THEN /\ run' = [run EXCEPT !.received = Append(@, line)]
                /\ UNCHANGED <<sa, em>>
           ELSE /\ LET p == Push(sa.this, trimmed)
                   IN  sa' = [sa EXCEPT !.this.window = p.window,
                                        !.pushed = Append(@, trimmed),
                                        !.call = [op |-> "push", outcome |-> p.outcome,
                                                  text |-> trimmed, scores |-> p.scores]]
                /\ LET current == Update(em.this, sa'.call.scores)
                   IN  em' = [em EXCEPT !.this.current = current, !.updates = @ + 1,
                                        !.call = [op |-> "update", from |-> em.this.current,
                                                  frame |-> Frame([em.this EXCEPT
                                                                     !.current = current])]]
                /\ run' = [run EXCEPT !.received = Append(@, line),
                                      !.latestFrame = em'.call.frame]
    /\ UNCHANGED <<ev, rm>>

\* rl.on('close'): await rm.render(latestFrame); clearInterval(interval);
\* await rm.close()
RunStdinClose ==
    /\ run.alive /\ run.stdin
    /\ LET r == RenderCall(rm)
           c == CloseCall(r.rm)
       IN  IF r.threw
           THEN /\ rm' = rm
                /\ run' = [run EXCEPT !.stdin = FALSE, !.failed = TRUE, !.alive = FALSE,
                                      !.exit = "unhandled rejection"]
           ELSE /\ rm' = c.rm
                /\ run' = [run EXCEPT
                             !.stdin = FALSE,
                             !.rendered = Append(@, [by |-> "final", frame |-> run.latestFrame]),
                             !.interval = IntervalCleared(@),
                             !.pending = IF c.waits THEN @ \cup {"close"} ELSE @,
                             !.log = @ \o <<"final render", "clearInterval", "close">>]
    /\ UNCHANGED <<ev, sa, em>>

\* process.on('SIGINT'): clearInterval(interval); await rm.close();
\* process.exit(0)
RunSigint ==
    /\ run.alive /\ ~run.sigint
    /\ LET c == CloseCall(rm)
       IN  /\ rm' = c.rm
           /\ run' = [run EXCEPT
                        !.sigint = TRUE,
                        !.interval = IntervalCleared(@),
                        !.pending = IF c.waits THEN @ \cup {"sigint"} ELSE @,
                        !.alive = c.waits,
                        !.exit = IF c.waits THEN @ ELSE "exit(0)",
                        !.log = @ \o <<"clearInterval", "close">>]
    /\ UNCHANGED <<ev, sa, em>>

\* The module's close settles for the handler h: rm.close sets renderer and
\* name to null and returns; the SIGINT handler then exits
RunCloseSettled(h) ==
    /\ run.alive /\ h \in run.pending
    /\ rm' = [rm EXCEPT !.renderer = "null", !.name = "null", !.load = 0]
    /\ run' = [run EXCEPT !.pending = @ \ {h},
                          !.alive = h # "sigint",
                          !.exit = IF h = "sigint" THEN "exit(0)" ELSE @]
    /\ UNCHANGED <<ev, sa, em>>

\* Nothing is left to wait for: the process ends
RunEnds ==
    /\ run.alive /\ ~run.interval /\ ~run.stdin /\ run.pending = {}
    /\ run' = [run EXCEPT !.alive = FALSE, !.exit = "end"]
    /\ UNCHANGED <<ev, sa, rm, em>>

\* face run not started.
InitRunVars == run = RunIdle

\* The other components as constructed and not called.
InitOtherVars ==
    /\ ev = NoEval
    /\ sa = SaStart(SaNew(2, 1, MaxWindow))
    /\ rm = RmNew
    /\ InitMapperVars
    /\ InitRunVars

\* The training loop.
Init ==
    /\ InitNetworkVars(TrainNets)
    /\ InitMatrixVars
    /\ InitOtherVars

Next ==
    \/ /\ tr.pc = "idle"
       /\ \E c \in TrainInputs :
             /\ TrainConfigs(c[1], c[2], c[3], c[4], c[5], c[6])
             /\ TrainCall(c[1], c[2], c[3], c[4], c[5], c[6])
             /\ UNCHANGED <<mvars, xvars>>
    \/ TrainSteps

Spec == Init /\ [][Next]_vars

\* Save and load, of fresh and of trained networks.
InitSerial ==
    /\ InitNetworkVars(SerialNets)
    /\ InitMatrixVars
    /\ InitOtherVars

NextSerial ==
    \/ /\ tr.pc = "idle"
       /\ \E c \in TrainInputs :
             /\ SerialConfigs(c[1], c[2], c[3], c[4], c[5], c[6])
             /\ TrainCall(c[1], c[2], c[3], c[4], c[5], c[6])
             /\ UNCHANGED <<mvars, xvars>>
    \/ TrainSteps
    \/ SaveNet /\ UNCHANGED <<mvars, xvars>>
    \/ \E v \in SnapshotVariants, seed \in XavierSeeds :
          /\ LoadNet(v, seed)
          /\ UNCHANGED <<mvars, xvars>>

SpecSerial == InitSerial /\ [][NextSerial]_vars

\* The matrix operations on their own: the network is left as constructed.
InitMatrix ==
    /\ InitMatrixVars
    /\ InitOtherVars
    /\ InitNetworkVars({<<<<1, 2>>, "relu">>})

NextMatrix ==
    \/ \E rows \in Dims, cols \in Dims, kind \in {"none", "array", "f64"},
          d \in {-1, 0, 1}, seed \in Seeds :
          /\ kind = "none" => (d = 0 /\ seed = 0)
          /\ MatrixNew(rows, cols, kind, rows * cols + d, seed)
          /\ UNCHANGED <<nvars, xvars>>
    \/ \E op \in BinaryOps : MatrixBinary(op) /\ UNCHANGED <<nvars, xvars>>
    \/ \E s \in ScaleArgs : MatrixScale(s) /\ UNCHANGED <<nvars, xvars>>
    \/ MatrixTranspose /\ UNCHANGED <<nvars, xvars>>
    \/ \E f \in MapFns : MatrixMap(f) /\ UNCHANGED <<nvars, xvars>>
    \/ MatrixClone /\ UNCHANGED <<nvars, xvars>>
    \/ MatrixToJSON /\ UNCHANGED <<nvars, xvars>>
    \/ \E fromCaller \in BOOLEAN : MatrixFromJSON(fromCaller) /\ UNCHANGED <<nvars, xvars>>
    \/ MatrixSet(0, 0, NumNeg(One)) /\ UNCHANGED <<nvars, xvars>>

SpecMatrix == InitMatrix /\ [][NextMatrix]_vars

\* ------------------------------------------------------------------------
\* Properties of Network.train
\* ------------------------------------------------------------------------

\* A train call is in progress or has returned.
Called == tr.pc # "idle"

\* C1: a train call whose configuration has epochs <= 0, batchSize <= 0 or
\* lr <= 0 fails with InvalidConfig: it goes no further than its entry, so
\* it neither returns a history nor enters the epoch or the batch loop.
C1_InvalidConfigFails ==
    (Called /\ ~ValidConfig(tr.lr, tr.epochs, tr.batchSize))
        => (tr.pc = "epoch" /\ tr.epoch = 0 /\ tr.indices = <<>> /\ obs = NoObs)

\* C2: for a configuration with epochs >= 1 and batchSize >= 1, whatever the
\* samples, the history train returns has exactly `epochs` records, and the
\* epoch field of the k-th record (from 1) is k - 1; while the call runs the
\* records pushed so far are numbered so.
C2_HistoryLengthIsEpochs ==
    (Called /\ tr.epochs >= 1 /\ tr.batchSize >= 1)
        => /\ \A k \in 1 .. Len(tr.history) : tr.history[k].epoch = k - 1
           /\ Len(tr.history) = tr.epoch
           /\ tr.pc = "returned" => Len(tr.history) = tr.epochs

\* C2 happens: a call over a non-empty sample list with two epochs or more has
\* returned its history.
C2_Witness ==
    /\ tr.pc = "returned"
    /\ tr.epochs >= 2
    /\ tr.batchSize >= 1
    /\ Len(tr.samples) > 0
    /\ Len(tr.history) = tr.epochs

\* ceil(n / k) for k >= 1
CeilDiv(n, k) == (n + k - 1) \div k

\* The batch loop of the current epoch has run to its end.
BatchLoopOver ==
    \/ tr.pc = "batch" /\ ~(tr.b < Len(tr.indices))
    \/ tr.pc \in {"epoch", "returned"} /\ tr.epoch >= 1

\* The number of positions of seq that hold x.
Occurrences(seq, x) == Cardinality({p \in 1 .. Len(seq) : seq[p] = x})

\* The batches applied so far are the consecutive cuts of size k of the index
\* order, the last one shorter when the order runs out; one update per batch.
ConsecutiveBatches ==
    LET n == Len(tr.indices)
        k == tr.batchSize
    IN  /\ obs.updates = Len(obs.batches)
        /\ \A j \in 1 .. Len(obs.batches) :
              LET first == (j - 1) * k
                  size == IF first + k <= n THEN k ELSE n - first
              IN  /\ first < n
                  /\ Len(obs.batches[j]) = size
                  /\ \A p \in 1 .. size : obs.batches[j][p] = tr.indices[first + p]

\* At the end of the batch loop: ceil(n / k) updates, the last batch of size
\* n mod k when that is not zero, and every sample in exactly one batch.
EpochPartition ==
    LET n == Len(tr.samples)
        k == tr.batchSize
    IN  BatchLoopOver =>
          /\ Len(tr.indices) = n
          /\ obs.updates = CeilDiv(n, k)
          /\ (n > 0 /\ n % k # 0) => Len(obs.batches[Len(obs.batches)]) = n % k
          /\ (n > 0 /\ n % k = 0) => Len(obs.batches[Len(obs.batches)]) = k
          /\ Len(obs.processed) = n
          /\ \A x \in 0 .. n - 1 :
                /\ Occurrences(obs.processed, x) = 1
                /\ Cardinality({j \in 1 .. Len(obs.batches) :
                                   Occurrences(obs.batches[j], x) > 0}) = 1
                /\ \A j \in 1 .. Len(obs.batches) : Occurrences(obs.batches[j], x) <= 1

\* C10: in each epoch of a call with batchSize k >= 1 over n samples the index
\* order is cut into consecutive batches of size k, the last of size n mod k
\* when that is not zero; ceil(n / k) updates are applied and every sample is
\* in exactly one batch. When k > n and there is a sample at all, the epoch
\* has one batch, of all n samples, and one update. (Over no samples the
\* epoch has no batch and no update.)
C10_BatchesPartitionEpoch ==
    (Called /\ tr.batchSize >= 1)
        => /\ ConsecutiveBatches
           /\ EpochPartition
           /\ (BatchLoopOver /\ tr.batchSize > Len(tr.samples) /\ Len(tr.samples) >= 1)
                 => /\ obs.updates = 1
                    /\ Len(obs.batches) = 1
                    /\ Len(obs.batches[1]) = Len(tr.samples)
           /\ (BatchLoopOver /\ Len(tr.samples) = 0) => obs.updates = 0

\* C10 happens: a shuffled epoch over the most samples, cut in batches of two,
\* has run through, the order shuffled being another than 0, 1, ..
C10_Witness ==
    /\ tr.pc = "batch"
    /\ ~(tr.b < Len(tr.indices))
    /\ tr.shuffle
    /\ tr.batchSize = 2
    /\ Len(tr.samples) = MaxSamples
    /\ tr.indices # Identity(MaxSamples)
    /\ obs.updates = CeilDiv(MaxSamples, 2)

\* C10 as it is stated, for every n, here of the calls with a valid
\* configuration alone: whenever k > n the epoch has exactly one batch,
\* holding all n samples, and exactly one update.
C10_AsStated ==
    (Called /\ ValidConfig(tr.lr, tr.epochs, tr.batchSize))
        => /\ ConsecutiveBatches
           /\ EpochPartition
           /\ (BatchLoopOver /\ tr.batchSize > Len(tr.samples))
                 => /\ obs.updates = 1
                    /\ Len(obs.batches) = 1
                    /\ Len(obs.batches[1]) = Len(tr.samples)

\* The sums, from zero accumulators, of the gradients backward gives on
\* network n for the first m samples of the batch, in the order of the batch.
RECURSIVE SumGradients(_, _, _, _)
SumGradients(n, samples, batch, m) ==
    IF m = 0
    THEN [dw |-> [i \in 1 .. Len(n.weights) |->
                    MatZeros(n.weights[i].rows, n.weights[i].cols)],
          db |-> [i \in 1 .. Len(n.biases) |->
                    MatZeros(n.biases[i].rows, n.biases[i].cols)]]
    ELSE LET acc == SumGradients(n, samples, batch, m - 1)
             smp == samples[batch[m] + 1]
             g == Backward(n, smp.input, smp.target)
         IN  [dw |-> [i \in 1 .. Len(acc.dw) |-> MatAdd(acc.dw[i], g.dw[i])],
              db |-> [i \in 1 .. Len(acc.db) |-> MatAdd(acc.db[i], g.db[i])]]

\* The step that ends a batch.
BatchEnds == tr.pc = "sample" /\ tr'.pc = "batch"

\* C11: the update after a batch is W_i <- W_i - (lr / m) * accDW_i and
\* b_i <- b_i - (lr / m) * accDB_i for every layer i, with m the number of
\* samples in the batch (not batchSize) and accDW_i, accDB_i the sums, from
\* zero, of the gradients of exactly the samples of the batch.
C11_UpdateUsesRealizedBatch ==
    [][BatchEnds =>
          LET m == Len(tr.batch)
              acc == SumGradients(net, tr.samples, tr.batch, m)
              scale == NumDiv(tr.lr, ToNum(m))
          IN  /\ Len(net'.weights) = Len(net.weights)
              /\ Len(net'.biases) = Len(net.biases)
              /\ \A i \in 1 .. Len(net.weights) :
                    /\ net'.weights[i] = MatSub(net.weights[i], MatScale(acc.dw[i], scale))
                    /\ net'.biases[i] = MatSub(net.biases[i], MatScale(acc.db[i], scale))]_vars

\* C11 happens: the update of a last batch shorter than batchSize has been
\* applied, after that of a full batch.
C11_Witness ==
    /\ tr.pc = "batch"
    /\ ValidConfig(tr.lr, tr.epochs, tr.batchSize)
    /\ obs.updates >= 2
    /\ Len(tr.batch) >= 1
    /\ Len(tr.batch) < tr.batchSize

\* C12: within a batch the parameters are not written between the first and
\* the last sample, so every backward pass and prediction of the batch reads
\* the parameters in force when the batch began; they are written once, by
\* the step that ends the batch, after its last sample was accumulated, and
\* that step counts one update.
C12_BatchReadsFixedParameters ==
    [][/\ (tr.pc = "batch" \/ (tr.pc = "sample" /\ tr.pos < Len(tr.batch)))
            => net' = net
       /\ net' # net
            => /\ BatchEnds
               /\ tr.pos = Len(tr.batch)
               /\ Len(obs.processed) >= Len(tr.batch)
               /\ \A p \in 1 .. Len(tr.batch) :
                     obs.processed[Len(obs.processed) - Len(tr.batch) + p] = tr.batch[p]
               /\ obs'.updates = obs.updates + 1]_vars

\* C12 happens: in a later epoch, so after earlier updates, a batch of two
\* samples or more is under way with a sample done and a sample to come.
C12_Witness ==
    /\ tr.pc = "sample"
    /\ tr.epoch >= 1
    /\ tr.pos >= 1
    /\ tr.pos < Len(tr.batch)
    /\ net # NetworkNew(net.layerSizes, net.hiddenActivation,
                        XavierDraws(net.layerSizes, 0))

\* The step that ends an epoch.
EpochEnds == Len(tr'.history) = Len(tr.history) + 1

\* C13: over a non-empty sample list, the record of an epoch has
\* loss = (sum of the losses of the samples of the epoch) / sampleCount and
\* accuracy = correct / sampleCount, between 0 and 1; onEpoch, when given, is
\* called once per epoch, by the step that pushes the record and with that
\* record, after all batches of the epoch and before any sample of the next,
\* so in ascending epoch order.
C13_EpochRecordAndCallback ==
    /\ [](Len(tr.samples) > 0 =>
            /\ \A k \in 1 .. Len(tr.history) :
                  /\ tr.history[k].accuracy >= 0
                  /\ tr.history[k].accuracy <= One
            /\ obs.calls = IF tr.onEpoch THEN tr.history ELSE <<>>
            /\ tr.pc \in {"batch", "sample"} => Len(tr.history) = tr.epoch)
    /\ [][Len(tr.samples) > 0 =>
            /\ (tr.pc = "epoch" /\ tr'.pc = "batch")
                  => (tr'.totalLoss = 0 /\ tr'.correct = 0)
            /\ (tr.pc = "sample" /\ tr'.pc = "sample")
                  => LET smp == tr.samples[tr.batch[tr.pos + 1] + 1]
                     IN  /\ tr'.totalLoss =
                               NumAdd(tr.totalLoss, Backward(net, smp.input, smp.target).loss)
                         /\ tr'.correct \in {tr.correct, tr.correct + 1}
            /\ ~EpochEnds => (tr'.history = tr.history /\ obs'.calls = obs.calls)
            /\ (tr.pc = "sample" /\ tr'.pc = "batch")
                  => (tr'.totalLoss = tr.totalLoss /\ tr'.correct = tr.correct)
            /\ EpochEnds
                  => /\ ~(tr.b < Len(tr.indices))
                     /\ tr.pc = "batch"
                     /\ tr'.history[Len(tr'.history)] =
                           [epoch |-> tr.epoch,
                            loss |-> NumDiv(tr.totalLoss, ToNum(Len(tr.samples))),
                            accuracy |-> NumDiv(ToNum(tr.correct), ToNum(Len(tr.samples)))]]_vars

\* C13 happens: the second epoch of a call with onEpoch over the most samples
\* has ended, its record pushed and handed to onEpoch.
C13_Witness ==
    /\ tr.onEpoch
    /\ Len(tr.samples) = MaxSamples
    /\ tr.batchSize = 2
    /\ Len(tr.history) >= 2
    /\ Len(obs.calls) = Len(tr.history)
    /\ tr.history[2].epoch = 1

\* ------------------------------------------------------------------------
\* Properties of Network.save and Network.load
\* ------------------------------------------------------------------------

\* The shape invariant of a network n.
ShapeInvariant(n) ==
    /\ Len(n.weights) = Len(n.layerSizes) - 1
    /\ Len(n.biases) = Len(n.layerSizes) - 1
    /\ \A i \in 1 .. Len(n.layerSizes) - 1 :
          /\ n.weights[i].rows = n.layerSizes[i + 1]
          /\ n.weights[i].cols = n.layerSizes[i]
          /\ n.biases[i].rows = n.layerSizes[i + 1]
          /\ n.biases[i].cols = 1

\* Network.load has been called and has returned a network.
LoadReturned == loaded.outcome = "returned"

\* C3: the network constructed, the network after any number of train steps,
\* and every network Network.load returns satisfy
\* len(weights) = len(biases) = len(layerSizes) - 1, with weights[i] of shape
\* (layerSizes[i+1], layerSizes[i]) and biases[i] of shape (layerSizes[i+1], 1).
C3_ShapeInvariantHolds ==
    /\ ShapeInvariant(net)
    /\ LoadReturned => ShapeInvariant(loaded.net)

\* A matrix record whose data is not rows * cols long.
BadRecord(j) == Len(j.data) # j.rows * j.cols

\* A snapshot with layerSizes, weights or biases missing, or with a matrix
\* record whose data length differs from rows * cols.
Malformed(s) ==
    \/ ~({"layerSizes", "weights", "biases"} \subseteq s.has)
    \/ \E i \in 1 .. Len(s.weights) : BadRecord(s.weights[i])
    \/ \E i \in 1 .. Len(s.biases) : BadRecord(s.biases[i])

\* C4: Network.load given a malformed snapshot fails: it returns no network,
\* so none whose matrix was truncated or zero-padded.
C4_MalformedSnapshotFails ==
    (loaded.outcome # "none" /\ Malformed(loaded.given)) => ~LoadReturned

\* C5: Network.load(N.save()) returns a network with the layerSizes and the
\* hiddenActivation of N and with weights and biases equal to those of N
\* element for element (so none of its Xavier parameters is left), and
\* predict gives the same output on both for every input.
C5_SaveLoadRoundTrip ==
    (loaded.outcome # "none" /\ loaded.given = snapshot)
        => /\ LoadReturned
           /\ loaded.net.layerSizes = net.layerSizes
           /\ loaded.net.hiddenActivation = net.hiddenActivation
           /\ loaded.net.weights = net.weights
           /\ loaded.net.biases = net.biases
           /\ \A k \in 0 .. MaxSamples :
                 LET x == SampleAt(k, net.layerSizes[1], 1).input
                 IN  Predict(loaded.net, x) = Predict(net, x)

\* ------------------------------------------------------------------------
\* Properties of Matrix
\* ------------------------------------------------------------------------

\* The last call was this op, on mats[1] and mats[2].
Did(ops) == call.op \in ops

\* C6: add, sub and hadamard given an operand of other rows or cols, and
\* addVec given a vector of other rows, fail with a shape error: they return
\* no matrix.
C6_ElementwiseShapeChecked ==
    /\ (Did({"add", "sub", "hadamard"})
        /\ (mats[2].rows # mats[1].rows \/ mats[2].cols # mats[1].cols))
          => call.outcome # "returned"
    /\ (Did({"addVec"}) /\ mats[2].rows # mats[1].rows)
          => call.outcome # "returned"

\* C7: mul given an operand with other.rows # this.cols fails with
\* MulShapeMismatch: it returns no product.
C7_MulShapeChecked ==
    (Did({"mul"}) /\ mats[1].cols # mats[2].rows) => call.outcome # "returned"

\* C8: new Matrix(rows, cols, data) with data, a plain array or a
\* Float64Array, of a length other than rows * cols fails with ShapeMismatch:
\* it returns no matrix.
C8_CtorShapeChecked ==
    (Did({"new"}) /\ call.kind \in {"array", "f64"}
     /\ call.len # mats[call.out].rows * mats[call.out].cols)
        => call.outcome # "returned"

\* The operations C9 is about, toJSON apart.
Returning ==
    {"add", "sub", "mul", "hadamard", "addVec", "scale", "transpose", "map",
     "clone", "fromJSON"}

\* C9: every operation other than set returns a matrix with a buffer of its
\* own and leaves its operands as they were: the buffer of the result is none
\* that existed before the call, and every buffer that existed before the
\* call holds what it held, also after a write into the result.
C9_ResultOwnsItsBuffer ==
    /\ Did(Returning) =>
          /\ mats[call.out].data > Len(call.pre)
          /\ \A k \in 1 .. Len(call.pre) : heap[k] = call.pre[k]
    /\ Did({"toJSON"}) => heap = call.pre

\* The data of the object m on heap h is rows * cols long.
WellFormed(h, m) == Len(h[m.data]) = m.rows * m.cols

\* m[i, j] on heap h, as get reads it.
Entry(h, m, i, j) == MatGet(Deref(h, m), i, j)

\* The sum over k < n, from k = 0 up, of a[i, k] * b[k, j].
RECURSIVE DotProduct(_, _, _, _, _, _)
DotProduct(h, a, b, i, j, n) ==
    IF n = 0 THEN 0
    ELSE NumAdd(DotProduct(h, a, b, i, j, n - 1),
                NumMul(Entry(h, a, i, n - 1), Entry(h, b, n - 1, j)))

\* The last call returned and nothing was written into its result since.
Fresh(ops) == Did(ops) /\ ~call.written

\* C14: for A (m x n) and B (n x p), A.mul(B) has rows = m and cols = p, and
\* its entry (i, j) is the sum over k in 0 .. n-1 of A[i, k] * B[k, j].
C14_MulIsMatrixProduct ==
    (Fresh({"mul"}) /\ WellFormed(call.pre, mats[1]) /\ WellFormed(call.pre, mats[2])
     /\ mats[1].cols = mats[2].rows)
        => /\ mats[3].rows = mats[1].rows
           /\ mats[3].cols = mats[2].cols
           /\ WellFormed(heap, mats[3])
           /\ \A i \in 0 .. mats[1].rows - 1, j \in 0 .. mats[2].cols - 1 :
                 Entry(heap, mats[3], i, j)
                    = DotProduct(call.pre, mats[1], mats[2], i, j, mats[1].cols)

\* C14 happens: a product of a matrix of MaxDim columns by one of MaxDim rows
\* and columns has been returned, with an entry that is not 0.
C14_Witness ==
    /\ Fresh({"mul"})
    /\ WellFormed(call.pre, mats[1])
    /\ WellFormed(call.pre, mats[2])
    /\ mats[1].cols = MaxDim
    /\ mats[2].rows = MaxDim
    /\ mats[2].cols = MaxDim
    /\ mats[1].rows = 1
    /\ Entry(heap, mats[3], 0, 1) # 0

\* C15: A.transpose() has rows = A.cols and cols = A.rows, its entry (j, i)
\* is A[i, j], and transposing it again gives A: the same rows, cols and
\* entries.
C15_TransposeIsInvolution ==
    (Fresh({"transpose"}) /\ WellFormed(call.pre, mats[1]))
        => /\ mats[2].rows = mats[1].cols
           /\ mats[2].cols = mats[1].rows
           /\ WellFormed(heap, mats[2])
           /\ \A i \in 0 .. mats[1].rows - 1, j \in 0 .. mats[1].cols - 1 :
                 Entry(heap, mats[2], j, i) = Entry(call.pre, mats[1], i, j)
           /\ MatTranspose(Deref(heap, mats[2])) = Deref(call.pre, mats[1])

\* C15 happens: a matrix of MaxDim rows and columns whose entries (0, 1) and
\* (1, 0) differ has been transposed.
C15_Witness ==
    /\ Fresh({"transpose"})
    /\ WellFormed(call.pre, mats[1])
    /\ mats[1].rows = MaxDim
    /\ mats[1].cols = MaxDim
    /\ Entry(call.pre, mats[1], 0, 1) # Entry(call.pre, mats[1], 1, 0)

\* softmax and forward on their own.
InitFn ==
    /\ InitMatrixVars
    /\ net = NoNet /\ tr = NoTrain /\ obs = NoObs
    /\ snapshot = NoSnapshot /\ loaded = NoLoad
    /\ ev \in EvalCalls
    /\ sa = SaStart(SaNew(2, 1, MaxWindow))
    /\ rm = RmNew
    /\ InitMapperVars
    /\ InitRunVars

NextFn ==
    \/ EvalSoftmax /\ UNCHANGED <<mvars, nvars>>
    \/ EvalForward /\ UNCHANGED <<mvars, nvars>>
    \/ EvalBackward /\ UNCHANGED <<mvars, nvars>>

SpecFn == InitFn /\ [][NextFn]_vars

\* ------------------------------------------------------------------------
\* Claims about softmax and forward
\* ------------------------------------------------------------------------

\* softmax has returned.
SoftmaxReturned == ev.op = "softmax" /\ ev.done

RECURSIVE SumOf(_, _)
SumOf(data, n) == IF n = 0 THEN 0 ELSE SumOf(data, n - 1) + data[n]

\* The vector holds no NaN and no +Infinity, and a finite entry.
HasFiniteMax(data) ==
    /\ \A k \in 1 .. Len(data) : data[k] # NaN /\ data[k] # PInf
    /\ \E k \in 1 .. Len(data) : IsFinite(data[k])

\* The rounding error a sum of n quotients can carry: half a unit each.
SumTolerance(n) == (n + 1) \div 2

ForwardReturned == ev.op = "forward" /\ ev.done

\* The sum over k < n, from k = 0 up, of w[r, k] * a[k, 0].
RECURSIVE LayerSum(_, _, _, _)
LayerSum(w, a, r, n) ==
    IF n = 0 THEN 0
    ELSE NumAdd(LayerSum(w, a, r, n - 1),
                NumMul(MatGet(w, r, n - 1), MatGet(a, n - 1, 0)))

\* C17: for a network with L weight layers, forward returns L pre-activations
\* zs and L + 1 activations as with as[0] the input; zs[i] = W_i * as[i] + b_i;
\* as[i + 1] is the hidden activation of zs[i] entry by entry for i < L - 1 and
\* softmax(zs[i]) for i = L - 1; predict returns as[L], a column vector of
\* layerSizes[L] entries.
C17_ForwardTrace ==
    ForwardReturned =>
        LET nw == ev.net
            L == Len(nw.weights)
        IN  /\ Len(ev.zs) = L
            /\ Len(ev.as) = L + 1
            /\ ev.as[1] = ev.input
            /\ \A i \in 1 .. L :
                  LET z == ev.zs[i]
                  IN  /\ z.rows = nw.layerSizes[i + 1] /\ z.cols = 1
                      /\ Len(z.data) = z.rows
                      /\ \A r \in 0 .. z.rows - 1 :
                            z.data[r + 1] =
                                NumAdd(LayerSum(nw.weights[i], ev.as[i], r, nw.layerSizes[i]),
                                       nw.biases[i].data[r + 1])
                      /\ ev.as[i + 1].rows = z.rows /\ ev.as[i + 1].cols = 1
                      /\ i < L => \A r \in 1 .. z.rows :
                            ev.as[i + 1].data[r] = ActFn(nw.hiddenActivation, z.data[r])
                      /\ i = L => ev.as[i + 1] = Softmax(z)
            /\ ev.out = ev.as[L + 1]
            /\ ev.out.rows = nw.layerSizes[L + 1] /\ ev.out.cols = 1
            /\ Len(ev.out.data) = nw.layerSizes[L + 1]

\* forward has returned for a network with two hidden layers whose output
\* layer saw two different pre-activations, one of them negative.
C17_Witness ==
    /\ ForwardReturned
    /\ Len(ev.net.weights) = 3
    /\ ev.zs[3].data[1] # ev.zs[3].data[2]
    /\ \E r \in 1 .. 2 : ev.zs[3].data[r] < 0
    /\ \E r \in 1 .. 2 : ev.zs[1].data[r] # 0

\* The SentimentAnalyzer on its own.
InitSentiment ==
    /\ InitMatrixVars
    /\ net = NoNet /\ tr = NoTrain /\ obs = NoObs
    /\ snapshot = NoSnapshot /\ loaded = NoLoad
    /\ ev = NoEval
    /\ \E this \in SaConfigs : sa = SaStart(this)
    /\ rm = RmNew
    /\ InitMapperVars
    /\ InitRunVars

NextSentiment ==
    \/ SaPrepare /\ UNCHANGED <<mvars, nvars>>
    \/ \E seed \in XavierSeeds : SaTrain(seed) /\ UNCHANGED <<mvars, nvars>>
    \/ \E text \in Lines : SaAnalyze(text) /\ UNCHANGED <<mvars, nvars>>
    \/ \E text \in Lines : SaPush(text) /\ UNCHANGED <<mvars, nvars>>
    \/ SaSave /\ UNCHANGED <<mvars, nvars>>
    \/ SaLoad /\ UNCHANGED <<mvars, nvars>>

SpecSentiment == InitSentiment /\ [][NextSentiment]_vars

\* ------------------------------------------------------------------------
\* Claims about the SentimentAnalyzer
\* ------------------------------------------------------------------------

\* The sum, from 0 and in window order, of the i-th score analyze gives for
\* each of the first n lines.
RECURSIVE ScoreSum(_, _, _, _)
ScoreSum(this, lines, i, n) ==
    IF n = 0 THEN 0
    ELSE NumAdd(ScoreSum(this, lines, i, n - 1), Analyze(this, lines[n]).scores[i])

\* The analyzer has a network and a vocabulary.
HasModel(this) == this.network # NoNet /\ ~this.vocab.null

\* C18: after any sequence of push calls the window holds at most windowSize
\* lines, and they are the most recently pushed lines in arrival order; the
\* scores push returns are, per emotion, the average of analyze over exactly
\* the lines in the window.
C18_WindowHoldsLatestLines ==
    LET this == sa.this
        n == Len(sa.pushed)
        k == IF n < this.windowSize THEN n ELSE this.windowSize
        w == this.window
    IN  /\ Len(w) <= this.windowSize
        /\ Len(w) = k
        /\ \A p \in 1 .. k : w[p] = sa.pushed[n - k + p]
        /\ sa.call.op = "push" =>
              /\ sa.call.outcome = "returned" <=> (HasModel(this) \/ k = 0)
              /\ sa.call.outcome = "returned" =>
                    /\ Len(sa.call.scores) = Len(Emotions)
                    /\ \A i \in 1 .. Len(Emotions) :
                          sa.call.scores[i] =
                              NumDiv(ScoreSum(this, w, i, Len(w)), ToNum(Len(w)))

\* A third, different line was pushed into a trained analyzer with a window
\* of two: the first line is gone and the scores returned are not those of
\* the last line alone.
C18_Witness ==
    /\ sa.call.op = "push" /\ sa.call.outcome = "returned"
    /\ sa.this.windowSize = 2
    /\ Len(sa.pushed) = 3
    /\ sa.pushed[1] # sa.pushed[2] /\ sa.pushed[2] # sa.pushed[3]
    /\ sa.this.window = <<sa.pushed[2], sa.pushed[3]>>
    /\ sa.call.scores # Analyze(sa.this, sa.pushed[3]).scores
    /\ \A i \in 1 .. Len(Emotions) : IsFinite(sa.call.scores[i])

\* C19: analyze throws 'Model not trained or loaded' whenever the analyzer has
\* no network or no vocabulary, and returns no scores then; a new analyzer has
\* neither, and only prepare, train and load give it one.
C19_AnalyzeNeedsModel ==
    /\ [](sa.call.op = "none" => (sa.this.network = NoNet /\ sa.this.vocab.null))
    /\ [][/\ (sa'.call.op = "analyze" /\ ~HasModel(sa.this)) =>
                /\ sa'.call.outcome = "Model not trained or loaded"
                /\ sa'.call.scores = <<>>
          /\ (sa'.this.network # sa.this.network \/ sa'.this.vocab # sa.this.vocab) =>
                sa'.call.op \in {"prepare", "train", "load"}]_vars

\* analyze was called on an analyzer that has a vocabulary and no network
\* (new Network threw in prepare), and threw.
C19_Witness ==
    /\ sa.call.op = "analyze"
    /\ sa.call.outcome = "Model not trained or loaded"
    /\ ~sa.this.vocab.null
    /\ sa.this.network = NoNet

\* The RendererManager on its own.
InitRenderer ==
    /\ InitMatrixVars
    /\ net = NoNet /\ tr = NoTrain /\ obs = NoObs
    /\ snapshot = NoSnapshot /\ loaded = NoLoad
    /\ ev = NoEval
    /\ sa = SaStart(SaNew(2, 1, MaxWindow))
    /\ rm = RmNew
    /\ InitMapperVars
    /\ InitRunVars

NextRenderer ==
    \/ \E name \in ModuleNames : RmUse(name) /\ UNCHANGED <<mvars, nvars>>
    \/ \E s \in 1 .. MaxPending : RmUseImported(s) /\ UNCHANGED <<mvars, nvars>>
    \/ \E s \in 1 .. MaxPending, ok \in BOOLEAN : RmUseInitSettled(s, ok) /\ UNCHANGED <<mvars, nvars>>
    \/ RmRender /\ UNCHANGED <<mvars, nvars>>
    \/ \E s \in 1 .. MaxPending : RmRenderSettled(s) /\ UNCHANGED <<mvars, nvars>>
    \/ RmClose /\ UNCHANGED <<mvars, nvars>>
    \/ \E s \in 1 .. MaxPending : RmCloseSettled(s) /\ UNCHANGED <<mvars, nvars>>

SpecRenderer == InitRenderer /\ [][NextRenderer]_vars

\* ------------------------------------------------------------------------
\* Claims about the RendererManager
\* ------------------------------------------------------------------------

\* No call is in flight.
RmQuiet == \A s \in 1 .. MaxPending : rm.tasks[s] = NoTask

\* C20: over any sequence of use, render and close calls, render throws
\* 'No renderer loaded' exactly when no renderer is loaded; a close that has
\* returned leaves renderer and name null; the close of a module is called at
\* most once for each time use installed it; and init has been called on
\* every module render reaches.
C20_RendererLifecycle ==
    /\ [](\A g \in 1 .. Len(rm.loads) :
             /\ rm.loads[g].closeCalls <= 1
             /\ rm.loads[g].rendered => rm.loads[g].initCalled)
    /\ [][/\ (rm'.call.op = "render" /\ rm'.calls # rm.calls) =>
                (rm'.call.outcome = "No renderer loaded" <=> rm.renderer = "null")
          /\ (\/ \E s \in 1 .. MaxPending : rm.tasks[s].op = "close" /\ rm'.tasks[s] = NoTask
              \/ rm'.call.op = "close" /\ rm'.calls # rm.calls /\ rm'.call.outcome = "returned") =>
                (rm'.renderer = "null" /\ rm'.name = "null")
          /\ (rm'.call.op = "close" /\ rm'.calls # rm.calls /\ rm.renderer = "null") =>
                rm'.loads = rm.loads]_vars

\* The ExpressionMapper on its own.
InitMapper ==
    /\ InitMatrixVars
    /\ net = NoNet /\ tr = NoTrain /\ obs = NoObs
    /\ snapshot = NoSnapshot /\ loaded = NoLoad
    /\ ev = NoEval
    /\ sa = SaStart(SaNew(2, 1, MaxWindow))
    /\ rm = RmNew
    /\ \E smoothing \in Smoothings : em = EmStart(EmNew(smoothing))
    /\ InitRunVars

NextMapper ==
    \/ \E rawScores \in [1 .. Len(Emotions) -> RawValues] :
          EmUpdate(rawScores) /\ UNCHANGED <<mvars, nvars>>
    \/ EmFrame /\ UNCHANGED <<mvars, nvars>>
    \/ EmReset /\ UNCHANGED <<mvars, nvars>>

SpecMapper == InitMapper /\ [][NextMapper]_vars

\* face run, from the first tick on.
InitRun ==
    /\ InitMatrixVars
    /\ net = NoNet /\ tr = NoTrain /\ obs = NoObs
    /\ snapshot = NoSnapshot /\ loaded = NoLoad
    /\ ev = NoEval
    /\ sa = SaStart(RunAnalyzer)
    /\ \E plugin \in Plugins : rm = RunManager(plugin)
    /\ \E smoothing \in {0, Half} :
          /\ em = EmStart(EmNew(smoothing))
          /\ run = RunStarted(EmNew(smoothing))

NextRun ==
    \/ RunTick /\ UNCHANGED <<mvars, nvars>>
    \/ \E line \in StdinLines : RunLine(line) /\ UNCHANGED <<mvars, nvars>>
    \/ RunStdinClose /\ UNCHANGED <<mvars, nvars>>
    \/ RunSigint /\ UNCHANGED <<mvars, nvars>>
    \/ \E h \in {"close", "sigint"} : RunCloseSettled(h) /\ UNCHANGED <<mvars, nvars>>
    \/ RunEnds /\ UNCHANGED <<mvars, nvars>>

SpecRun == InitRun /\ [][NextRun]_vars

\* ------------------------------------------------------------------------
\* Claims about the ExpressionMapper
\* ------------------------------------------------------------------------

\* C21: for every smoothing factor in [0, 1] and whatever raw scores update is
\* given, the smoothed scores of the mapper sum to 1 (within rounding) in the
\* initial state, after every update and after reset.
C21_ScoresSumToOne ==
    LET n == Len(Emotions)
        sum == CurrentSum(em.this.current, n)
    IN  /\ IsFinite(sum)
        /\ sum \in (One - SumTolerance(n)) .. (One + SumTolerance(n))

\* C22: a new mapper is in the pure neutral state (neutral = 1, every other
\* emotion = 0, dominant = 'neutral'), and reset after any updates restores
\* exactly that state: the frame after reset has the sentiment, the dominant
\* emotion and the points of the initial frame.
C22_ResetRestoresNeutral ==
    /\ \A n \in 1 .. Len(Emotions) :
          em.first.sentiment[n] = IF Emotions[n] = "neutral" THEN One ELSE 0
    /\ em.first.dominant = "neutral"
    /\ em.call.op \in {"new", "reset"} =>
          /\ em.this.current = em.first.sentiment
          /\ em.call.frame.sentiment = em.first.sentiment
          /\ em.call.frame.dominant = em.first.dominant
          /\ em.call.frame.points = em.first.points

\* reset was called on a mapper that two updates had moved away from neutral:
\* its dominant emotion and its points were others.
C22_Witness ==
    /\ em.call.op = "reset"
    /\ em.updates = 2
    /\ em.call.from # em.first.sentiment
    /\ Frame([em.this EXCEPT !.current = em.call.from]).dominant = "joy"
    /\ Deform(em.call.from) # em.first.points

\* ------------------------------------------------------------------------
\* Claims about face run
\* ------------------------------------------------------------------------

\* A line of spaces only, or of nothing.
IsBlank(line) == \A i \in 1 .. Len(line) : line[i] = " "

\* The analyzer and the mapper after the lines that are not blank were pushed
\* and mapped in order, from a loaded analyzer and a new mapper.
RECURSIVE AfterLines(_, _)
AfterLines(smoothing, lines) ==
    IF lines = <<>> THEN [sa |-> RunAnalyzer, em |-> EmNew(smoothing)]
    ELSE LET before == AfterLines(smoothing, SubSeq(lines, 1, Len(lines) - 1))
             line == lines[Len(lines)]
             p == Push(before.sa, TrimRight(TrimLeft(line)))
         IN  IF IsBlank(line) THEN before
             ELSE [sa |-> [before.sa EXCEPT !.window = p.window],
                   em |-> [before.em EXCEPT !.current = Update(before.em, p.scores)]]

\* The renders the close handler of stdin has made.
FinalRenders == SelectSeq(run.rendered, LAMBDA r : r.by = "final")

\* C23: When stdin closes, the handler renders the latest frame once, then
\* clears the interval, then closes the renderer, in that order; the frame it
\* renders is the one the non-empty lines received so far lead to; and a
\* line that is empty after trimming changes neither the window nor the
\* mapper nor the latest frame.
C23_FinalRenderThenClose ==
    /\ [](Len(FinalRenders) <= 1)
    /\ [][/\ (run.stdin /\ ~run'.stdin) =>
                /\ ~run'.failed
                /\ run'.rendered = Append(run.rendered,
                                          [by |-> "final", frame |-> run.latestFrame])
                /\ run.latestFrame = Frame(AfterLines(em.this.smoothing, run.received).em)
                /\ run'.log = run.log \o <<"final render", "clearInterval", "close">>
                /\ ~run'.interval
                /\ rm'.loads[1].closeCalls = rm.loads[1].closeCalls + 1
          /\ (Len(run'.received) > Len(run.received)
                /\ IsBlank(run'.received[Len(run'.received)])) =>
                /\ sa' = sa
                /\ em' = em
                /\ run'.latestFrame = run.latestFrame]_vars

\* stdin has closed after a tick, a blank line and a line with text, and the
\* final frame is not the frame of a new mapper.
C23_Witness ==
    /\ run.started /\ ~run.stdin
    /\ \E i, j \in 1 .. Len(run.received) :
          /\ i < j
          /\ IsBlank(run.received[i]) /\ run.received[i] # <<>>
          /\ ~IsBlank(run.received[j])
    /\ Len(FinalRenders) = 1
    /\ FinalRenders[1].frame # Frame(EmNew(em.this.smoothing))
    /\ FinalRenders[1].frame = run.rendered[Len(run.rendered)].frame
    /\ \E k \in 1 .. Len(run.log) - 3 : run.log[k] = "tick"
    /\ SubSeq(run.log, Len(run.log) - 2, Len(run.log))
          = <<"final render", "clearInterval", "close">>

\* ------------------------------------------------------------------------
\* Claims about what the Network methods write
\* ------------------------------------------------------------------------

\* C24: No step changes the network's layerSizes or hiddenActivation; its
\* weights and biases change only where train applies the gradients of a
\* batch; the sample step (backward, predict, and forward inside both) and
\* save leave the network as it is; load leaves the network and the snapshot
\* as they are and returns another network.
C24_OnlyTrainWritesParameters ==
    [][/\ net'.layerSizes = net.layerSizes
       /\ net'.hiddenActivation = net.hiddenActivation
       /\ net' # net => (tr.pc = "sample" /\ tr.pos = Len(tr.batch) /\ tr'.pc = "batch")
       /\ (tr.pc = "sample" /\ tr'.pos = tr.pos + 1) => net' = net
       /\ snapshot' # snapshot => (net' = net /\ snapshot' = Save(net))
       /\ loaded' # loaded =>
             /\ net' = net
             /\ snapshot' = snapshot
             /\ \E v \in SnapshotVariants : loaded'.given = Variant(snapshot, v)]_vars

\* A network that training has changed was saved, and a snapshot with a
\* layer dropped was loaded into a network that differs from it.
C24_Witness ==
    /\ tr.pc = "returned"
    /\ Len(tr.history) >= 1
    /\ \E i \in 1 .. Len(net.biases) :
          \E k \in 1 .. Len(net.biases[i].data) : net.biases[i].data[k] # 0
    /\ snapshot = Save(net)
    /\ loaded.outcome = "returned"
    /\ loaded.net # net
    /\ Len(loaded.net.weights) < Len(net.weights)

\* ------------------------------------------------------------------------
\* Claims about backward
\* ------------------------------------------------------------------------

\* backward has returned.
BackwardReturned == ev.op = "backward" /\ ev.done

\* The sum over k < n, from k = 0 up, of w[k, r] * delta[k].
RECURSIVE ColumnSum(_, _, _, _)
ColumnSum(w, delta, r, n) ==
    IF n = 0 THEN 0
    ELSE NumAdd(ColumnSum(w, delta, r, n - 1),
                NumMul(MatGet(w, n - 1, r), ReadAt(delta.data, n - 1)))

\* C25: For a network whose matrices have the shapes of its layerSizes and
\* an input and a target of its input and output sizes, backward returns one
\* dw and one db per layer, dw[i] shaped as weights[i] and db[i] as
\* biases[i]; the last db is as[L] - target; dw[i] is db[i] times as[i]
\* transposed; for i > 0 the db below is (weights[i] transposed times db[i])
\* times, entry by entry, the derivative of the hidden activation at
\* zs[i-1]; and db[i] holds the delta's entries in a buffer of its own.
C25_BackwardGradients ==
    BackwardReturned =>
        LET L == Len(ev.net.weights)
            w == ev.net.weights
        IN  /\ Len(ev.dw) = L /\ Len(ev.db) = L
            /\ \A i \in 1 .. L :
                  /\ ev.dw[i].rows = w[i].rows /\ ev.dw[i].cols = w[i].cols
                  /\ Len(ev.dw[i].data) = w[i].rows * w[i].cols
                  /\ ev.db[i].rows = ev.net.biases[i].rows
                  /\ ev.db[i].cols = ev.net.biases[i].cols
                  /\ Len(ev.db[i].data) = ev.net.biases[i].rows
                  /\ \A r \in 0 .. w[i].rows - 1 : \A c \in 0 .. w[i].cols - 1 :
                        MatGet(ev.dw[i], r, c)
                           = NumMul(ReadAt(ev.db[i].data, r), ReadAt(ev.as[i].data, c))
                  /\ ev.own[i].db.data # ev.own[i].delta.data
                  /\ ev.own[i].heap[ev.own[i].db.data] = ev.db[i].data
                  /\ ev.own[i].heap[ev.own[i].delta.data] = ev.db[i].data
            /\ \A r \in 0 .. ev.db[L].rows - 1 :
                  ReadAt(ev.db[L].data, r)
                     = NumSub(ReadAt(ev.as[L + 1].data, r), ReadAt(ev.target.data, r))
            /\ \A i \in 2 .. L : \A r \in 0 .. w[i].cols - 1 :
                  ReadAt(ev.db[i - 1].data, r)
                     = NumMul(ColumnSum(w[i], ev.db[i], r, w[i].rows),
                              ActDfn(ev.net.hiddenActivation, ReadAt(ev.zs[i - 1].data, r)))

\* backward has returned for three layers of weights, with a gradient that
\* is not zero in the first layer and a hidden unit whose derivative is not 1
\* under a sum that is not zero.
C25_Witness ==
    /\ BackwardReturned
    /\ Len(ev.dw) = 3
    /\ \E k \in 1 .. Len(ev.dw[1].data) : ev.dw[1].data[k] # 0
    /\ \E i \in 2 .. 3 : \E r \in 0 .. ev.net.weights[i].cols - 1 :
          /\ ActDfn(ev.net.hiddenActivation, ReadAt(ev.zs[i - 1].data, r)) # One
          /\ ColumnSum(ev.net.weights[i], ev.db[i], r, ev.net.weights[i].rows) # 0

\* ------------------------------------------------------------------------
\* Claims about the accuracy count and the index order of an epoch
\* ------------------------------------------------------------------------

\* The lowest index (from 0) of an entry of m that no entry of m is greater
\* than.
FirstMaximal(m) ==
    LET maximal == {i \in 0 .. m.rows - 1 :
                       \A j \in 0 .. m.rows - 1 : ~NumGt(ReadAt(m.data, j), ReadAt(m.data, i))}
    IN  CHOOSE i \in maximal : \A k \in maximal : i <= k

\* The sample the step at hand processes.
SampleAtHand == tr.samples[tr.batch[tr.pos + 1] + 1]

\* C26: A sample step adds one to the epoch's correct count exactly when the
\* first maximal entry of the prediction and the first maximal entry of the
\* target have the same index, ties going to the lowest index in both; the
\* count never exceeds the number of samples processed in the epoch, nor the
\* number of samples.
C26_CorrectCountsFirstMaxima ==
    /\ [](tr.correct <= Len(obs.processed) /\ tr.correct <= Len(tr.samples))
    /\ [][(tr.pc = "sample" /\ tr'.pc = "sample" /\ tr'.pos = tr.pos + 1) =>
             tr'.correct = tr.correct +
                (IF FirstMaximal(Predict(net, SampleAtHand.input))
                      = FirstMaximal(SampleAtHand.target) THEN 1 ELSE 0)]_vars

\* In one batch a sample was counted correct and another was not, and one
\* of the predictions had its two largest entries equal.
C26_Witness ==
    /\ tr.pc = "sample"
    /\ tr.pos >= 2
    /\ tr.correct >= 1
    /\ tr.correct < Len(obs.processed)
    /\ \E k \in 1 .. tr.pos :
          LET pred == Predict(net, tr.samples[tr.batch[k] + 1].input)
          IN  /\ pred.rows = 2
              /\ IsFinite(pred.data[1])
              /\ pred.data[1] = pred.data[2]

\* C27: Whatever Math.random returns, the indices of an epoch hold each of
\* 0 .. n-1 once, n being the number of samples; without shuffle they are in
\* ascending order in every epoch; and the samples list of the caller is
\* the same, in the same order, at every step of the call.
C27_IndicesArePermutation ==
    /\ [](tr.pc \in {"batch", "sample"} =>
             LET n == Len(tr.samples)
             IN  /\ Len(tr.indices) = n
                 /\ \A v \in 0 .. n - 1 :
                       Cardinality({k \in 1 .. n : tr.indices[k] = v}) = 1
                 /\ ~tr.shuffle => \A k \in 1 .. n : tr.indices[k] = k - 1)
    /\ [][tr.pc # "idle" => tr'.samples = tr.samples]_vars

\* The second epoch of a shuffled call over three samples runs on an order
\* that is not ascending, and the first and the last index have moved.
C27_Witness ==
    /\ tr.pc \in {"batch", "sample"}
    /\ tr.shuffle
    /\ tr.epoch = 1
    /\ Len(tr.samples) = 3
    /\ tr.indices[1] # 0
    /\ tr.indices[3] # 2

\* ------------------------------------------------------------------------
\* Claims about the length of a Matrix's data
\* ------------------------------------------------------------------------

\* C28: Every Matrix built so far, by the constructor (zeros and the arrays
\* of fromArray among its calls), by fromJSON, by clone or as the result of
\* an operation, has data of length rows * cols.
C28_DataLengthIsRowsTimesCols ==
    \A k \in 1 .. Len(mats) : WellFormed(heap, mats[k])

\* ------------------------------------------------------------------------
\* Claims about a push that throws
\* ------------------------------------------------------------------------

\* The window after text is pushed at its end and, beyond size lines, the
\* oldest line is dropped.
Shifted(window, text, size) ==
    IF Len(window) + 1 > size THEN Tail(Append(window, text)) ELSE Append(window, text)

\* C29: Every push leaves the window with the line appended and the oldest
\* line evicted beyond windowSize, whether it returns or throws; a push that
\* throws 'Model not trained or loaded' has no model and leaves its line last
\* in the window; and a push that returns averages analyze over all the lines
\* of the window, those of earlier pushes that threw among them.
C29_PushRecordsBeforeAnalysing ==
    [][(sa'.call.op = "push" /\ Len(sa'.pushed) = Len(sa.pushed) + 1) =>
          LET text == sa'.call.text
              w == sa'.this.window
          IN  /\ text = sa'.pushed[Len(sa'.pushed)]
              /\ w = Shifted(sa.this.window, text, sa.this.windowSize)
              /\ sa'.call.outcome \in {"returned", "Model not trained or loaded"}
              /\ sa'.call.outcome = "Model not trained or loaded" =>
                    /\ ~HasModel(sa.this)
                    /\ Len(w) >= 1 /\ w[Len(w)] = text
              /\ sa'.call.outcome = "returned" =>
                    \A i \in 1 .. Len(Emotions) :
                       sa'.call.scores[i]
                          = NumDiv(ScoreSum(sa'.this, w, i, Len(w)), ToNum(Len(w)))]_vars

\* A second, different line was pushed into a window of two by an analyzer
\* without a model: the push threw, and the window holds both lines, the
\* line of the earlier push that threw and this one.
C29_Witness ==
    /\ sa.call.op = "push"
    /\ sa.call.outcome = "Model not trained or loaded"
    /\ sa.this.windowSize = 2
    /\ Len(sa.pushed) = 2
    /\ sa.pushed[1] # sa.pushed[2]
    /\ sa.this.window = sa.pushed
    /\ sa.call.text = sa.pushed[2]

\* The renders the interval has made.
TickRenders == SelectSeq(run.rendered, LAMBDA r : r.by = "tick")

\* C30: In every order of ticks, lines, the close of stdin and SIGINT, no
\* render finds the renderer null; a tick runs only while the interval is
\* set and renders the latest frame, which is the frame the non-empty lines
\* received so far lead to (the frame of the new mapper before the first of
\* them); and once a handler has cleared the interval it stays cleared, as
\* the renderer, once null, stays null.
C30_NoRenderAfterClose ==
    /\ [](~run.failed)
    /\ [][/\ Len(run'.rendered) > Len(run.rendered) => rm.renderer # "null"
          /\ Len(TickRenders') > Len(TickRenders) =>
                /\ run.interval
                /\ run'.rendered[Len(run'.rendered)].frame = run.latestFrame
                /\ run.latestFrame = Frame(AfterLines(em.this.smoothing, run.received).em)
          /\ ~run.interval => ~run'.interval
          /\ rm.renderer = "null" => rm'.renderer = "null"]_vars

\* A tick has rendered a frame a line produced; SIGINT then cleared the
\* interval and waits for the module's close; stdin closed meanwhile and its
\* handler made the final render on the renderer still in place.
C30_Witness ==
    /\ run.started /\ run.alive
    /\ Len(TickRenders) >= 1
    /\ TickRenders[Len(TickRenders)].frame # Frame(EmNew(em.this.smoothing))
    /\ run.sigint /\ "sigint" \in run.pending
    /\ ~run.interval
    /\ ~run.stdin
    /\ run.rendered[Len(run.rendered)].by = "final"
    /\ SubSeq(run.log, Len(run.log) - 4, Len(run.log))
          = <<"clearInterval", "close", "final render", "clearInterval", "close">>
    /\ rm.renderer # "null"

====
